---------------------------- MODULE Spec2Model ----------------------------
(***************************************************************************)
(* A model of the agner actor runtime: the System facade (spawn, send,    *)
(* exit, wait, link, channel), the per-actor runner (select loop,         *)
(* termination sequence) and the behaviour seen through its Context.      *)
(*                                                                         *)
(* An ActorID is <<slot, generation>>.  Per slot the model keeps the id   *)
(* pool (gen, leased), the entry table record (entry), the two unbounded  *)
(* channels (sysq, msgq) with the state of their receivers, and the state *)
(* of the runner task bound to the slot.                                  *)
(***************************************************************************)
EXTENDS Integers, Sequences, FiniteSets, Bags

\* ------------------------------------------------------------------ bounds
\* SystemConfig.max_actors of the two modelled systems.
LinkActors == 2
MailActors == 1
\* SpawnOpts.msg_inbox_size and sig_inbox_size of the modelled actors.
MsgInboxSize == 2
SigInboxSize == 1
\* Calls explored in the specification of links and exit signals.
LinkSpawns == 2
LinkExits == 1
LinkLinks == 1
LinkCalls == 1
\* Calls explored in the fair specification of System::exit.
ExitSpawns == 2
ExitSignals == 2
ExitBehCalls == 1
\* Calls explored in the specification of messages, waits and recycled ids.
MailSpawns == 2
MailSends == 3
MailExits == 1
MailWaits == 1
MailChannels == 1
MailCalls == 1
SupChildren == 2
SupMaxRestarts == 1
SupWithin == 2
SupMaxTime == 2
SupDowns == 3
SupID == 0
StopCalls == 2
InfoCalls == 2
\* Calls explored in the specification of the id pool.
PoolSpawns == 4
PoolExits == 2
PoolCalls == 1
\* Calls explored in the fair specification of Kill.
KillSpawns == 1
KillExits == 2
KillCalls == 1
\* Calls explored in the specification of a dropped System.
FaultSpawns == 2
FaultChannels == 1
\* Calls explored in the specification of attached futures.
TaskSpawns == 1
TaskSends == 2
TaskCalls == 3
SupReasons == {<<"Boom">>, <<"Shutdown">>}

NoID == <<-1, 0>>
NoEntry == <<-1, 1>>

\* Exit reasons (crate docs, Exit): the kinds the model distinguishes.
ExitArgs == {"Normal", "Shutdown", "Kill"}
BehExits == {"Normal", "Custom"}

VARIABLES
    gen,        \* id pool: generation of each slot
    leased,     \* id pool: slot has an outstanding lease
    entry,      \* entry table: running_actor_id of the slot's record, or NoEntry
    putting,    \* a spawn call has started the runner and not yet put the entry
    pc,         \* runner: "none", "linking", "running", "pushing", "sigpush", "notify", "drain"
    rid,        \* runner: actor_id of the runner bound to the slot
    opts,       \* runner: SpawnOpts.links
    todo,       \* runner: SpawnOpts.links still to be linked
    sysOpen,    \* sys_msg_rx exists and is not closed
    msgOpen,    \* messages_rx exists and is not closed
    sysq,       \* unbounded channel of system messages
    msgq,       \* unbounded channel of user messages
    held,       \* runner: the item of a suspended pipe send
    inbox,      \* msg-inbox pipe
    sigs,       \* sig-inbox pipe
    calls,      \* calls pipe (capacity 1)
    links,      \* watches.links
    trap,       \* watches.trap_exit
    waits,      \* waiters registered with the running actor
    exitReason, \* the runner's final exit reason
    beh,        \* behaviour: "idle" (not polled yet), "run", "parked" (inside Context::exit)
    recvd,      \* messages the behaviour has received
    waiter,     \* every wait or actor_info call: target, result, and the target's state
                \* (for actor_info: the actor of the snapshot) when it resolved
    linkCall,   \* the System::link call in progress
    chanRes,    \* the last System::channel call: requested id and the actor its sender reaches
    gh,         \* per runner, what it did: last system message handled, links
                \* established, SigExit deliveries, messages accepted for it
    hist,       \* what the callers did: waits returned, links requested
    budget,     \* remaining calls of each kind
    sup,        \* a one-for-one restart decider and what its supervisor did with it
    tasks       \* runner: the futures attached with future_to_inbox, each running or ready

\* The slots of the system: the entry table has max_actors cells.
Slots == DOMAIN gen

runtime == <<gen, leased, entry, putting, pc, rid, opts, todo, sysOpen, msgOpen, sysq, msgq,
          held, inbox, sigs, calls, links, trap, waits, exitReason, beh, recvd,
          waiter, linkCall, chanRes, gh, hist, budget>>
vars == <<runtime, sup, tasks>>

ids == <<gen, leased, entry, putting>>
chans == <<sysOpen, msgOpen, sysq, msgq>>
runner == <<pc, rid, opts, todo, held, links, trap, waits, exitReason>>
pipes == <<inbox, sigs, calls>>
behav == <<beh, recvd>>
callers == <<waiter, linkCall, chanRes>>
\* What no handler of the runner changes.
rest == <<gen, leased, entry, putting, rid, opts, msgq, inbox, beh, recvd, linkCall,
          chanRes, hist, budget>>

\* ------------------------------------------------------------ messages
SysMsg(t, to, from, r, w) == [t |-> t, to |-> to, from |-> from, r |-> r, w |-> w]
Link(to, from) == SysMsg("Link", to, from, "-", 0)
Unlink(to, from) == SysMsg("Unlink", to, from, "-", 0)
SigExit(to, from, r) == SysMsg("SigExit", to, from, r, 0)
Wait(to, w) == SysMsg("Wait", to, NoID, "-", w)
GetInfo(to, w) == SysMsg("GetInfo", to, NoID, "-", w)

IsNormal(r) == r = "Normal"
Range(q) == {q[i] : i \in 1 .. Len(q)}
Slot(id) == id[1]
Full(q, n) == Len(q) >= n

\* The ids a caller can name: every id a spawn call has returned (spawn
\* returns the id once the entry is installed).
KnownIDs ==
    UNION {{<<s, g>> : g \in {h \in 0 .. gen[s] : h < gen[s] \/ (leased[s] /\ ~putting[s])}} :
           s \in Slots}

\* ------------------------------------------------------- entry table
\* read(id): the record of id's slot, whatever incarnation it holds.
ActorEntryRead(to) == entry[Slot(to)]

\* System::send_sys_msg: true iff the entry is to's and the channel accepts.
SendSysMsgOkLax(to) ==
    /\ to # NoID
    /\ ActorEntryRead(to) # NoEntry
    /\ sysOpen[Slot(to)]
SendSysMsgOk(to) ==
    /\ to # NoID
    /\ ActorEntryRead(to) = to
    /\ sysOpen[Slot(to)]

\* System::send: the message enters the channel iff the entry is to's and
\* the receiver is open.
SendOkLax(to) == ActorEntryRead(to) # NoEntry /\ msgOpen[Slot(to)]
SendOk(to) == ActorEntryRead(to) = to /\ msgOpen[Slot(to)]

\* The system-message channels after System::send_sys_msg(to, m).
SysPut(q, to, m) ==
    IF SendSysMsgOk(to) THEN [q EXCEPT ![Slot(to)] = Append(@, m)] ELSE q

RECURSIVE SysPutAll(_, _)
SysPutAll(q, ms) ==
    IF ms = <<>> THEN q ELSE SysPutAll(SysPut(q, Head(ms).to, Head(ms)), Tail(ms))

RECURSIVE SetToSeq(_)
SetToSeq(S) ==
    IF S = {} THEN <<>>
    ELSE LET x == CHOOSE y \in S : \A z \in S : (y[1] < z[1]) \/ (y[1] = z[1] /\ y[2] <= z[2])
         IN <<x>> \o SetToSeq(S \ {x})

\* ------------------------------------------------------------ handlers
(* A handler of the runner is an operator from the runner's state and its   *)
(* input to an outcome: the exit reason it returns as Err ("-" for Ok), the *)
(* new link set, trap_exit flag and registered waiters, the signal it       *)
(* pushes to the sig-inbox, the system messages it sends through the        *)
(* System (send), those it puts on its own sys_msg_tx (self), and the       *)
(* waiters whose oneshot sender it drops.                                   *)
Keep(s) ==
    [exit |-> "-", links |-> links[s], trap |-> trap[s], waits |-> waits[s],
     sig |-> <<>>, send |-> <<>>, self |-> <<>>, dropped |-> {}, told |-> {}, task |-> {}]

\* Backend::do_link: insert into links, send Link(self); a refused Link is
\* answered to oneself with SigExit(to, NoActor).
DoLink(s, to) ==
    [Keep(s) EXCEPT
        !.links = @ \cup {to},
        !.send = <<Link(to, rid[s])>>,
        !.self = IF SendSysMsgOk(to) THEN <<>> ELSE <<SigExit(rid[s], to, "NoActor")>>]

\* Backend::handle_call_unlink: send Unlink(self), remove from links.
DoUnlink(s, from) ==
    [Keep(s) EXCEPT !.links = @ \ {from}, !.send = <<Unlink(from, rid[s])>>]

HandleSysMsgLink(s, from) == [Keep(s) EXCEPT !.links = @ \cup {from}]

HandleSysMsgUnlink(s, from) == [Keep(s) EXCEPT !.links = @ \ {from}]

\* Backend::handle_sys_msg_sig_exit.  Kill terminates without consulting
\* trap_exit; a signal whose origin is neither linked nor the actor itself
\* is ignored.
HandleSysMsgSigExit(s, from, r) ==
    IF r = "Kill" THEN [Keep(s) EXCEPT !.exit = r, !.links = @ \ {from}]
    ELSE IF from # rid[s] /\ from \notin links[s] THEN Keep(s)
    ELSE IF trap[s]
        THEN [Keep(s) EXCEPT !.links = @ \ {from}, !.sig = <<[from |-> from, r |-> r]>>]
    ELSE IF IsNormal(r) /\ from # rid[s] THEN [Keep(s) EXCEPT !.links = @ \ {from}]
    ELSE [Keep(s) EXCEPT !.exit = r, !.links = @ \ {from}]

\* Wait(tx): the sender is registered and honoured at exit.
HandleSysMsgWait(s, w) == [Keep(s) EXCEPT !.waits = @ \cup {w}]

\* Backend::handle_sys_msg_get_info: the snapshot, which carries the
\* runner's actor_id, is sent to the oneshot of the request.
HandleSysMsgGetInfo(s, w) == [Keep(s) EXCEPT !.told = {w}]

\* Backend::handle_sys_msg
HandleSysMsgDeaf(s, m) ==
    CASE m.t = "SigExit" ->
            IF m.r = "NoActor" THEN Keep(s) ELSE HandleSysMsgSigExit(s, m.from, m.r)
      [] m.t = "Link" -> HandleSysMsgLink(s, m.from)
      [] m.t = "Unlink" -> HandleSysMsgUnlink(s, m.from)
      [] OTHER -> HandleSysMsgWait(s, m.w)
HandleSysMsgStrict(s, m) ==
    CASE m.t = "SigExit" ->
            IF trap[s] THEN HandleSysMsgSigExit(s, m.from, m.r)
            ELSE [Keep(s) EXCEPT !.exit = m.r, !.links = @ \ {m.from}]
      [] m.t = "Link" -> HandleSysMsgLink(s, m.from)
      [] m.t = "Unlink" -> HandleSysMsgUnlink(s, m.from)
      [] OTHER -> HandleSysMsgWait(s, m.w)
HandleSysMsgNoTrap(s, m) ==
    CASE m.t = "SigExit" ->
            IF IsNormal(m.r) THEN [Keep(s) EXCEPT !.links = @ \ {m.from}]
            ELSE [Keep(s) EXCEPT !.exit = m.r, !.links = @ \ {m.from}]
      [] m.t = "Link" -> HandleSysMsgLink(s, m.from)
      [] m.t = "Unlink" -> HandleSysMsgUnlink(s, m.from)
      [] OTHER -> HandleSysMsgWait(s, m.w)
HandleSysMsgTrapAll(s, m) ==
    CASE m.t = "SigExit" ->
            [Keep(s) EXCEPT !.links = @ \ {m.from}, !.sig = <<[from |-> m.from, r |-> m.r]>>]
      [] m.t = "Link" -> HandleSysMsgLink(s, m.from)
      [] m.t = "Unlink" -> HandleSysMsgUnlink(s, m.from)
      [] OTHER -> HandleSysMsgWait(s, m.w)
HandleSysMsg(s, m) ==
    CASE m.t = "SigExit" -> HandleSysMsgSigExit(s, m.from, m.r)
      [] m.t = "Link" -> HandleSysMsgLink(s, m.from)
      [] m.t = "Unlink" -> HandleSysMsgUnlink(s, m.from)
      [] m.t = "GetInfo" -> HandleSysMsgGetInfo(s, m.w)
      [] OTHER -> HandleSysMsgWait(s, m.w)

\* Backend::handle_sys_msg_on_shutdown: a Link is answered, Unlink and
\* SigExit are discarded; a Wait has no arm that answers it, its sender is
\* dropped with the message.
HandleSysMsgOnShutdownMute(s, m, r) ==
    IF m.t = "Wait" THEN [Keep(s) EXCEPT !.dropped = {m.w}] ELSE Keep(s)
HandleSysMsgOnShutdownLoud(s, m, r) ==
    CASE m.t = "Link" -> [Keep(s) EXCEPT !.send = <<SigExit(m.from, rid[s], r)>>]
      [] m.t = "GetInfo" -> HandleSysMsgGetInfo(s, m.w)
      [] m.t = "Wait" -> [Keep(s) EXCEPT !.dropped = {m.w}]
      [] OTHER -> Keep(s)
HandleSysMsgOnShutdown(s, m, r) ==
    CASE m.t = "Link" ->
            IF IsNormal(r)
            THEN [Keep(s) EXCEPT !.send = <<Unlink(m.from, rid[s])>>]
            ELSE [Keep(s) EXCEPT !.send = <<SigExit(m.from, rid[s], r)>>]
      [] m.t = "GetInfo" -> HandleSysMsgGetInfo(s, m.w)
      [] m.t = "Wait" -> [Keep(s) EXCEPT !.dropped = {m.w}]
      [] OTHER -> Keep(s)

\* Backend::handle_future_to_inbox: the future joins the set of tasks.
HandleFutureToInbox(s, f) == [Keep(s) EXCEPT !.task = {f}]

\* Backend::handle_call_msg
HandleCallMsg(s, c) ==
    CASE c.t = "Exit" -> [Keep(s) EXCEPT !.exit = c.r]
      [] c.t = "Link" -> DoLink(s, c.id)
      [] c.t = "Unlink" -> DoUnlink(s, c.id)
      [] c.t = "FutureToInbox" -> HandleFutureToInbox(s, c.n)
      [] OTHER -> [Keep(s) EXCEPT !.trap = c.b]

\* Backend::notify_linked_actors: SigExit(self, reason) to every linked peer.
NotifyLinkedActors(s, r) ==
    LET peers == SetToSeq(links[s])
    IN [Keep(s) EXCEPT !.send = [i \in 1 .. Len(peers) |-> SigExit(peers[i], rid[s], r)]]


\* -------------------------------------------------------------- ghosts
BagAdd(b, S) == b (+) SetToBag(S)
Count(b, e) == CopiesIn(e, b)

\* The SigExit deliveries among the messages ms: target and reason of each
\* one its target accepts.
Delivered(ms) ==
    {<<ms[i].to, ms[i].r>> :
        i \in {j \in 1 .. Len(ms) : ms[j].t = "SigExit" /\ SendSysMsgOk(ms[j].to)}}

\* The links a handler's outcome establishes: the peer is in the link set
\* and a Link(self) was sent towards it.
Established(o) ==
    {o.send[i].to : i \in {j \in 1 .. Len(o.send) : o.send[j].t = "Link" /\ o.send[j].to \in o.links}}

\* What handling a SigExit came to: the runner's exit, a signal pushed
\* towards the sig-inbox, or neither.
Effect(o) == IF o.exit # "-" THEN "exit" ELSE IF o.sig # <<>> THEN "signal" ELSE "none"

\* The peers whose Link a handler's outcome found refused: the origins of
\* the SigExit(peer, NoActor) the runner sends to itself.
Refused(o) == {o.self[i].from : i \in 1 .. Len(o.self)}

NoGhost == [last |-> <<>>, seen |-> EmptyBag, est |-> {}, refused |-> {}, sigOut |-> EmptyBag,
            sent |-> <<>>, notified |-> {}, fault |-> FALSE, attached |-> {}, completed |-> {}]

\* Target and reason of every SigExit among the messages ms.
Signalled(ms) == {<<ms[i].to, ms[i].r>> : i \in {j \in 1 .. Len(ms) : ms[j].t = "SigExit"}}

\* ------------------------------------------------ one-for-one decider
\* Exit reasons are paths: shutdown_with_source(r) puts Shutdown in front
\* of its source r.
ShutdownWithSource(r) == <<"Shutdown">> \o r

Start(idx) == [t |-> "Start", idx |-> idx, id |-> -1, r |-> <<>>]
Stop(idx, id, r) == [t |-> "Stop", idx |-> idx, id |-> id, r |-> r]
Exit(r) == [t |-> "Exit", idx |-> -1, id |-> -1, r |-> r]

\* FrequencyStats::report: the failures of the last SupWithin time units,
\* the reported one included; exceeded when they are more than
\* SupMaxRestarts.
Report(stats, at) ==
    LET kept == SelectSeq(stats, LAMBDA x : x + SupWithin > at) \o <<at>>
    IN [stats |-> kept, exceeded |-> Len(kept) > SupMaxRestarts]

\* OneForOneDecider::initiate_shutdown: the pending actions are replaced by
\* Stop of every child, last index first, then Exit.
InitiateShutdown(d, r) ==
    LET n == Len(d.children)
    IN [d EXCEPT !.pending =
            [k \in 1 .. n |-> Stop(n - k, d.children[n - k + 1], ShutdownWithSource(r))]
            \o <<Exit(r)>>]

\* The first index whose child has the id, -1 if none.
ChildIdx(d, id) ==
    LET hits == {i \in 1 .. Len(d.children) : d.children[i] = id}
    IN IF hits = {} THEN -1 ELSE (CHOOSE i \in hits : \A j \in hits : i <= j) - 1

\* OneForOneDecider::actor_down
ActorDownWithStop(d, at, id, r) ==
    LET idx == ChildIdx(d, id)
        all == {d.children[i] : i \in 1 .. Len(d.children)}
    IN IF id = SupID THEN InitiateShutdown(d, r)
       ELSE IF id \in d.ignored THEN [d EXCEPT !.ignored = @ \ {id}]
       ELSE IF idx # -1
            THEN LET rep == Report(d.failures[idx + 1], at)
                     d1 == [d EXCEPT !.failures[idx + 1] = rep.stats]
                 IN IF rep.exceeded
                    THEN InitiateShutdown([d1 EXCEPT !.ignored = @ \cup all],
                                          ShutdownWithSource(r))
                    ELSE [d1 EXCEPT !.pending = @ \o <<Stop(idx, id, r), Start(idx)>>]
       ELSE InitiateShutdown([d EXCEPT !.ignored = @ \cup all], r)
ActorDown(d, at, id, r) ==
    LET idx == ChildIdx(d, id)
        all == {d.children[i] : i \in 1 .. Len(d.children)}
    IN IF id = SupID THEN InitiateShutdown(d, r)
       ELSE IF id \in d.ignored THEN [d EXCEPT !.ignored = @ \ {id}]
       ELSE IF idx # -1
            THEN LET rep == Report(d.failures[idx + 1], at)
                     d1 == [d EXCEPT !.failures[idx + 1] = rep.stats]
                 IN IF rep.exceeded
                    THEN InitiateShutdown([d1 EXCEPT !.ignored = @ \cup all],
                                          ShutdownWithSource(r))
                    ELSE [d1 EXCEPT !.pending = Append(@, Start(idx))]
       ELSE InitiateShutdown([d EXCEPT !.ignored = @ \cup all], r)

\* OneForOneDecider::child_up
ChildUp(d, idx, id) == [d EXCEPT !.children[idx + 1] = id]

\* OneForOne::new_decider for a supervisor whose children were started in
\* order: child idx has the id idx + 1.
NewDecider ==
    [children |-> [i \in 1 .. SupChildren |-> i],
     failures |-> [i \in 1 .. SupChildren |-> <<>>],
     ignored |-> {},
     pending |-> <<>>]

\* ChildSpec::new: the default shutdown steps, Shutdown then Kill, each
\* with a timeout.
DefaultShutdown == <<"Shutdown", "Kill">>

\* The escalation of one child's shutdown: its position, the step k it is
\* at, the child, the wait call of the step, the value returned, and what
\* it has done so far.
EscInit == [pc |-> "idle", k |-> 1, target |-> NoID, w |-> 0, res |-> "-", log |-> <<>>]

\* esc: the shutdown escalation the supervisor runs for a Stop.
\* d: the decider; now: the time of the latest report; fresh: the next
\* actor id the system hands out; down: the actors reported down;
\* starting: the indices whose Start was yielded and not yet answered;
\* out: the actions next_action has yielded; last: the latest actor_down;
\* started: the ids whose report pushed a Start;
\* shut: the first shutdown and whether another was asked for since;
\* left: the reports still to come.
SupInit ==
    [d |-> NewDecider, now |-> 0, fresh |-> SupChildren + 1, down |-> {}, starting |-> {},
     out |-> <<>>, last |-> <<>>, shut |-> <<>>, left |-> SupDowns, esc |-> EscInit,
     started |-> {}]

\* ---------------------------------------------------------------- Init
InitWith(n, b) ==
    /\ gen = [s \in 0 .. (n - 1) |-> 0]
    /\ leased = [s \in 0 .. (n - 1) |-> FALSE]
    /\ entry = [s \in 0 .. (n - 1) |-> NoEntry]
    /\ putting = [s \in 0 .. (n - 1) |-> FALSE]
    /\ pc = [s \in 0 .. (n - 1) |-> "none"]
    /\ rid = [s \in 0 .. (n - 1) |-> NoID]
    /\ opts = [s \in 0 .. (n - 1) |-> {}]
    /\ todo = [s \in 0 .. (n - 1) |-> {}]
    /\ sysOpen = [s \in 0 .. (n - 1) |-> FALSE]
    /\ msgOpen = [s \in 0 .. (n - 1) |-> FALSE]
    /\ sysq = [s \in 0 .. (n - 1) |-> <<>>]
    /\ msgq = [s \in 0 .. (n - 1) |-> <<>>]
    /\ held = [s \in 0 .. (n - 1) |-> <<>>]
    /\ inbox = [s \in 0 .. (n - 1) |-> <<>>]
    /\ sigs = [s \in 0 .. (n - 1) |-> <<>>]
    /\ calls = [s \in 0 .. (n - 1) |-> <<>>]
    /\ links = [s \in 0 .. (n - 1) |-> {}]
    /\ trap = [s \in 0 .. (n - 1) |-> FALSE]
    /\ waits = [s \in 0 .. (n - 1) |-> {}]
    /\ exitReason = [s \in 0 .. (n - 1) |-> "-"]
    /\ beh = [s \in 0 .. (n - 1) |-> "idle"]
    /\ recvd = [s \in 0 .. (n - 1) |-> <<>>]
    /\ waiter = <<>>
    /\ linkCall = [pc |-> "idle", left |-> NoID, right |-> NoID, la |-> FALSE, ra |-> FALSE]
    /\ chanRes = [id |-> NoID, got |-> NoID]
    /\ gh = [s \in 0 .. (n - 1) |-> NoGhost]
    /\ hist = [waited |-> {}, late |-> FALSE, sysLinked |-> {}, linkOps |-> EmptyBag,
               unlinked |-> {}, comp |-> <<>>, limit |-> 0, gone |-> FALSE]
    /\ budget = b
    /\ sup = SupInit
    /\ tasks = [s \in 0 .. (n - 1) |-> {}]

\* ------------------------------------------------------------- runner
(* The effect of a handler's outcome o on the runner of slot s.  q0 is the  *)
(* system-message channels once the handler's input is taken, cont the      *)
(* runner's position if the handler returns Ok, g0 the runner's ghost.      *)
Apply(s, o, q0, cont, g0) ==
    LET q1 == SysPutAll(q0, o.send)
        q2 == IF sysOpen[s] THEN [q1 EXCEPT ![s] = @ \o o.self] ELSE q1
        exits == o.exit # "-"
        block == o.sig # <<>> /\ Full(sigs[s], SigInboxSize)
    IN /\ sysq' = q2
       /\ links' = [links EXCEPT ![s] = o.links]
       /\ trap' = [trap EXCEPT ![s] = o.trap]
       /\ waits' = [waits EXCEPT ![s] = o.waits]
       /\ sigs' = IF o.sig # <<>> /\ ~block THEN [sigs EXCEPT ![s] = @ \o o.sig] ELSE sigs
       /\ held' = IF block THEN [held EXCEPT ![s] = o.sig] ELSE held
       /\ pc' = [pc EXCEPT ![s] = IF exits THEN "notify" ELSE IF block THEN "sigpush" ELSE cont]
       /\ exitReason' = IF exits THEN [exitReason EXCEPT ![s] = o.exit] ELSE exitReason
       \* run_actor_backend: sys_msg_rx.close(); messages_rx.close()
       /\ sysOpen' = IF exits THEN [sysOpen EXCEPT ![s] = FALSE] ELSE sysOpen
       /\ msgOpen' = IF exits THEN [msgOpen EXCEPT ![s] = FALSE] ELSE msgOpen
       /\ waiter' = [w \in DOMAIN waiter |->
                        IF w \in o.dropped /\ waiter[w].res = "pending"
                        THEN [waiter[w] EXCEPT !.res = "NoActor", !.at = pc[s],
                                               !.fin = exitReason[s]]
                        ELSE IF w \in o.told
                        THEN [waiter[w] EXCEPT !.res = "Some", !.at = pc[s], !.fin = rid[s]]
                        ELSE waiter[w]]
       /\ gh' = [gh EXCEPT ![s] = [g0 EXCEPT !.sigOut = BagAdd(@, Delivered(o.send)),
                                             !.est = @ \cup Established(o),
                                             !.refused = @ \cup Refused(o)]]

\* ActorRunner::run: the behaviour future is polled only by the select that
\* also drives the backend, after the do_link loop.
PolledEarly(s) == pc[s] \in {"linking", "running", "pushing", "sigpush", "notify", "drain"}
Polled(s) == pc[s] \in {"running", "pushing", "sigpush", "notify", "drain"}

\* ActorIDPool::acquire_id: the first slot without a lease; none when all
\* are leased.
AcquireId(s) == ~leased[s] /\ \A u \in Slots : u < s => leased[u]

\* System::spawn up to tokio::spawn: lease an id, create the channels, start
\* the runner.  L is SpawnOpts.links.
SpawnBeginAnySlot(s, L) ==
    /\ budget.spawn > 0
    /\ \A u \in Slots : u < s => leased[u]
    /\ leased' = [leased EXCEPT ![s] = TRUE]
    /\ putting' = [putting EXCEPT ![s] = TRUE]
    /\ rid' = [rid EXCEPT ![s] = <<s, gen[s]>>]
    /\ opts' = [opts EXCEPT ![s] = L]
    /\ todo' = [todo EXCEPT ![s] = L]
    /\ pc' = [pc EXCEPT ![s] = IF L = {} THEN "running" ELSE "linking"]
    /\ sysOpen' = [sysOpen EXCEPT ![s] = TRUE]
    /\ msgOpen' = [msgOpen EXCEPT ![s] = TRUE]
    /\ budget' = [budget EXCEPT !.spawn = @ - 1]
    /\ UNCHANGED <<gen, entry, sysq, msgq, held, inbox, sigs, calls, links, trap, waits,
                   exitReason, beh, recvd, waiter, linkCall, chanRes, gh, hist>>
    /\ UNCHANGED sup
    /\ UNCHANGED tasks
SpawnBegin(s, L) ==
    /\ budget.spawn > 0
    /\ AcquireId(s)
    /\ leased' = [leased EXCEPT ![s] = TRUE]
    /\ putting' = [putting EXCEPT ![s] = TRUE]
    /\ rid' = [rid EXCEPT ![s] = <<s, gen[s]>>]
    /\ opts' = [opts EXCEPT ![s] = L]
    /\ todo' = [todo EXCEPT ![s] = L]
    /\ pc' = [pc EXCEPT ![s] = IF L = {} THEN "running" ELSE "linking"]
    /\ sysOpen' = [sysOpen EXCEPT ![s] = TRUE]
    /\ msgOpen' = [msgOpen EXCEPT ![s] = TRUE]
    /\ budget' = [budget EXCEPT !.spawn = @ - 1]
    /\ UNCHANGED <<gen, entry, sysq, msgq, held, inbox, sigs, calls, links, trap, waits,
                   exitReason, beh, recvd, waiter, linkCall, chanRes, gh, hist>>
    /\ UNCHANGED sup
    /\ UNCHANGED tasks

\* System::spawn, actor_entry_put: install the entry.
SpawnPut(s) ==
    /\ putting[s]
    /\ putting' = [putting EXCEPT ![s] = FALSE]
    /\ entry' = [entry EXCEPT ![s] = <<s, gen[s]>>]
    /\ UNCHANGED <<gen, leased, chans, runner, pipes, behav, callers, gh, hist, budget>>
    /\ UNCHANGED sup
    /\ UNCHANGED tasks

\* System::spawn when acquire_id yields no lease: Err(MaxActorsLimit) is
\* returned before any channel, runner or entry is made.
SpawnFail ==
    /\ budget.spawn > 0
    /\ \A s \in Slots : ~AcquireId(s)
    /\ budget' = [budget EXCEPT !.spawn = @ - 1]
    /\ hist' = [hist EXCEPT !.limit = @ + 1]
    /\ UNCHANGED <<ids, chans, runner, pipes, behav, callers, gh>>
    /\ UNCHANGED sup
    /\ UNCHANGED tasks

\* ActorRunner::run, the loop over spawn_opts.links.
RunnerLink(s) ==
    /\ pc[s] = "linking"
    /\ \E x \in todo[s] :
        /\ todo' = [todo EXCEPT ![s] = @ \ {x}]
        /\ Apply(s, DoLink(s, x), sysq, IF todo[s] = {x} THEN "running" ELSE "linking", gh[s])
        /\ hist' = [hist EXCEPT !.linkOps = BagAdd(@, {{rid[s], x}})]
    /\ UNCHANGED <<gen, leased, entry, putting, rid, opts, msgq, inbox, beh, recvd, linkCall,
                   chanRes, budget, calls>>
    /\ UNCHANGED sup
    /\ UNCHANGED tasks

\* run_actor_backend, select arm sys_msg_rx.recv() => handle_sys_msg
RunnerSys(s) ==
    /\ pc[s] = "running"
    /\ sysq[s] # <<>>
    /\ LET m == Head(sysq[s])
           o == HandleSysMsg(s, m)
       IN Apply(s, o, [sysq EXCEPT ![s] = Tail(@)], "running",
                [gh[s] EXCEPT
                    !.last = <<[m |-> m, trap |-> trap[s], linked |-> m.from \in links[s]]>>,
                    !.seen = IF m.t = "SigExit"
                             THEN BagAdd(@, {<<m.from, m.r, Effect(o)>>}) ELSE @])
    /\ UNCHANGED <<rest, todo, calls>>
    /\ UNCHANGED sup
    /\ UNCHANGED tasks

\* run_actor_backend, select arm calls_r.recv() => handle_call_msg
RunnerCall(s) ==
    /\ pc[s] = "running"
    /\ calls[s] # <<>>
    /\ LET o == HandleCallMsg(s, Head(calls[s]))
       IN /\ Apply(s, o, sysq, "running", [gh[s] EXCEPT !.attached = @ \cup o.task])
          /\ tasks' = [tasks EXCEPT ![s] = @ \cup {[n |-> f, ready |-> FALSE] : f \in o.task}]
    /\ calls' = [calls EXCEPT ![s] = Tail(@)]
    /\ LET c == Head(calls[s])
       IN hist' = [hist EXCEPT
                    !.linkOps = IF c.t = "Link" THEN BagAdd(@, {{rid[s], c.id}}) ELSE @,
                    !.unlinked = IF c.t = "Unlink" THEN @ \cup {{rid[s], c.id}} ELSE @]
    /\ UNCHANGED <<gen, leased, entry, putting, rid, opts, msgq, inbox, beh, recvd, linkCall,
                   chanRes, budget, todo>>
    /\ UNCHANGED sup

\* Backend::handle_message_recv: the message is pushed to the back of the
\* msg-inbox.
HandleMessageRecvFront(box, m) == <<m>> \o box
HandleMessageRecv(box, m) == Append(box, m)

\* run_actor_backend, select arm messages_rx.recv() => handle_message_recv:
\* the message is taken from the channel, then pushed; the push suspends
\* the runner while the inbox is full.
RunnerMsg(s) ==
    /\ pc[s] = "running"
    /\ msgq[s] # <<>>
    /\ msgq' = [msgq EXCEPT ![s] = Tail(@)]
    /\ IF Full(inbox[s], MsgInboxSize)
       THEN /\ pc' = [pc EXCEPT ![s] = "pushing"]
            /\ held' = [held EXCEPT ![s] = <<Head(msgq[s])>>]
            /\ UNCHANGED inbox
       ELSE /\ inbox' = [inbox EXCEPT ![s] = HandleMessageRecv(@, Head(msgq[s]))]
            /\ UNCHANGED <<pc, held>>
    /\ UNCHANGED <<ids, rid, opts, todo, sysOpen, msgOpen, sysq, sigs, calls, links, trap,
                   waits, exitReason, behav, callers, gh, hist, budget>>
    /\ UNCHANGED sup
    /\ UNCHANGED tasks

\* Backend::handle_message_recv for a source that reports closure.
HandleMessageRecvNoneNormal(s) == [Keep(s) EXCEPT !.exit = "Normal"]
HandleMessageRecvNone(s) == [Keep(s) EXCEPT !.exit = "RxClosed"]

\* run_actor_backend, select arm messages_rx.recv() yielding None: the
\* channel is empty and every sender is gone, the one of the entry with
\* the System and no other was handed out by System::channel.
RunnerMsgClosed(s) ==
    /\ pc[s] = "running"
    /\ msgq[s] = <<>>
    /\ hist.gone
    /\ chanRes.got # rid[s]
    /\ Apply(s, HandleMessageRecvNone(s), sysq, "running", [gh[s] EXCEPT !.fault = TRUE])
    /\ UNCHANGED <<rest, todo, calls>>
    /\ UNCHANGED sup
    /\ UNCHANGED tasks

\* run_actor_backend, task_next: pending while no future is attached,
\* else the output of a future that is ready; -1 stands for None.
TaskNextUnguarded(S) == IF S = {} THEN {-1} ELSE {f.n : f \in {g \in S : g.ready}}
TaskNext(S) == IF S = {} THEN {} ELSE {f.n : f \in {g \in S : g.ready}}

\* The output of the future f attached to the actor of slot s.
Output(s, f) == [to |-> rid[s], n |-> f, late |-> FALSE, fut |-> TRUE]
IsOutput(m) == "fut" \in DOMAIN m

\* An attached future gets its output.
FutureReady(s) ==
    /\ pc[s] \in {"running", "pushing", "sigpush"}
    /\ \E f \in tasks[s] :
        /\ ~f.ready
        /\ tasks' = [tasks EXCEPT ![s] = (@ \ {f}) \cup {[f EXCEPT !.ready = TRUE]}]
        /\ gh' = [gh EXCEPT ![s].completed = @ \cup {f.n}]
    /\ UNCHANGED <<ids, chans, runner, pipes, behav, callers, hist, budget>>
    /\ UNCHANGED sup

\* run_actor_backend, select arm task_next => handle_message_recv: the
\* output leaves the set of tasks and is pushed like a user message.
RunnerTask(s) ==
    /\ pc[s] = "running"
    /\ \E x \in TaskNext(tasks[s]) :
        IF x = -1
        THEN /\ Apply(s, HandleMessageRecvNone(s), sysq, "running",
                      [gh[s] EXCEPT !.fault = TRUE])
             /\ UNCHANGED <<tasks, inbox>>
        ELSE /\ tasks' = [tasks EXCEPT ![s] = {f \in @ : f.n # x}]
             /\ IF Full(inbox[s], MsgInboxSize)
                THEN /\ pc' = [pc EXCEPT ![s] = "pushing"]
                     /\ held' = [held EXCEPT ![s] = <<Output(s, x)>>]
                     /\ UNCHANGED inbox
                ELSE /\ inbox' = [inbox EXCEPT ![s] = HandleMessageRecv(@, Output(s, x))]
                     /\ UNCHANGED <<pc, held>>
             /\ UNCHANGED <<sysOpen, msgOpen, sysq, sigs, links, trap, waits, exitReason,
                            waiter, gh>>
    /\ UNCHANGED <<ids, rid, opts, todo, msgq, calls, behav, linkCall, chanRes, hist, budget>>
    /\ UNCHANGED sup

\* The suspended inbox_w.send completes once the behaviour has made room.
RunnerPush(s) ==
    /\ pc[s] = "pushing"
    /\ ~Full(inbox[s], MsgInboxSize)
    /\ inbox' = [inbox EXCEPT ![s] = HandleMessageRecv(@, Head(held[s]))]
    /\ held' = [held EXCEPT ![s] = <<>>]
    /\ pc' = [pc EXCEPT ![s] = "running"]
    /\ UNCHANGED <<ids, rid, opts, todo, chans, sigs, calls, links, trap, waits, exitReason,
                   behav, callers, gh, hist, budget>>
    /\ UNCHANGED sup
    /\ UNCHANGED tasks

\* The suspended signals_w.send completes once the behaviour has made room.
RunnerSigPush(s) ==
    /\ pc[s] = "sigpush"
    /\ ~Full(sigs[s], SigInboxSize)
    /\ sigs' = [sigs EXCEPT ![s] = @ \o held[s]]
    /\ held' = [held EXCEPT ![s] = <<>>]
    /\ pc' = [pc EXCEPT ![s] = "running"]
    /\ UNCHANGED <<ids, rid, opts, todo, chans, inbox, calls, links, trap, waits, exitReason,
                   behav, callers, gh, hist, budget>>
    /\ UNCHANGED sup
    /\ UNCHANGED tasks

\* run_actor_backend after the loop: notify_linked_actors
RunnerNotifyNobody(s) ==
    /\ pc[s] = "notify"
    /\ LET o == Keep(s)
       IN Apply(s, o, sysq, "drain", [gh[s] EXCEPT !.notified = Signalled(o.send)])
    /\ UNCHANGED <<rest, todo, calls>>
    /\ UNCHANGED sup
    /\ UNCHANGED tasks
RunnerNotify(s) ==
    /\ pc[s] = "notify"
    /\ LET o == NotifyLinkedActors(s, exitReason[s])
       IN Apply(s, o, sysq, "drain", [gh[s] EXCEPT !.notified = Signalled(o.send)])
    /\ UNCHANGED <<rest, todo, calls>>
    /\ UNCHANGED sup
    /\ UNCHANGED tasks

\* run_actor_backend, the drain loop: handle_sys_msg_on_shutdown
RunnerDrain(s) ==
    /\ pc[s] = "drain"
    /\ sysq[s] # <<>>
    /\ Apply(s, HandleSysMsgOnShutdown(s, Head(sysq[s]), exitReason[s]),
             [sysq EXCEPT ![s] = Tail(@)], "drain", gh[s])
    /\ hist' = [hist EXCEPT
                    !.waited = IF Head(sysq[s]).t = "Wait" THEN @ \cup {rid[s]} ELSE @]
    /\ UNCHANGED <<gen, leased, entry, putting, rid, opts, msgq, inbox, beh, recvd, linkCall,
                   chanRes, budget, todo, calls>>
    /\ UNCHANGED sup
    /\ UNCHANGED tasks

\* The drain loop ends, the backend returns its exit reason and
\* ActorRunner::run calls actor_entry_terminate: the waiters are woken with
\* the reason, the entry is removed and its lease released.  Without an
\* entry of this actor nothing is woken or removed.
RunnerTerminate(s) ==
    /\ pc[s] = "drain"
    /\ sysq[s] = <<>>
    /\ LET has == entry[s] = rid[s]
       IN /\ entry' = IF has THEN [entry EXCEPT ![s] = NoEntry] ELSE entry
          /\ leased' = IF has THEN [leased EXCEPT ![s] = FALSE] ELSE leased
          /\ gen' = IF has THEN [gen EXCEPT ![s] = @ + 1] ELSE gen
          /\ waiter' = [w \in DOMAIN waiter |->
                          IF w \in waits[s] /\ waiter[w].res = "pending"
                          THEN [waiter[w] EXCEPT
                                    !.res = IF has THEN exitReason[s] ELSE "NoActor",
                                    !.at = "terminated", !.fin = exitReason[s]]
                          ELSE waiter[w]]
          /\ hist' = [hist EXCEPT !.waited = IF waits[s] # {} THEN @ \cup {rid[s]} ELSE @]
    /\ pc' = [pc EXCEPT ![s] = "none"]
    /\ rid' = [rid EXCEPT ![s] = NoID]
    /\ opts' = [opts EXCEPT ![s] = {}]
    /\ sysOpen' = [sysOpen EXCEPT ![s] = FALSE]
    /\ msgOpen' = [msgOpen EXCEPT ![s] = FALSE]
    /\ msgq' = [msgq EXCEPT ![s] = <<>>]
    /\ held' = [held EXCEPT ![s] = <<>>]
    /\ inbox' = [inbox EXCEPT ![s] = <<>>]
    /\ sigs' = [sigs EXCEPT ![s] = <<>>]
    /\ calls' = [calls EXCEPT ![s] = <<>>]
    /\ links' = [links EXCEPT ![s] = {}]
    /\ trap' = [trap EXCEPT ![s] = FALSE]
    /\ waits' = [waits EXCEPT ![s] = {}]
    /\ exitReason' = [exitReason EXCEPT ![s] = "-"]
    /\ beh' = [beh EXCEPT ![s] = "idle"]
    /\ recvd' = [recvd EXCEPT ![s] = <<>>]
    /\ gh' = [gh EXCEPT ![s] = NoGhost]
    /\ UNCHANGED <<putting, todo, sysq, linkCall, chanRes, budget>>
    /\ UNCHANGED sup
    /\ tasks' = [tasks EXCEPT ![s] = {}]

\* ---------------------------------------------------------- behaviour
\* Context::next_message: take the head of the msg-inbox.
BehRecv(s) ==
    /\ Polled(s)
    /\ beh[s] # "parked"
    /\ inbox[s] # <<>>
    /\ inbox' = [inbox EXCEPT ![s] = Tail(@)]
    /\ recvd' = [recvd EXCEPT ![s] = Append(@, Head(inbox[s]))]
    /\ beh' = [beh EXCEPT ![s] = "run"]
    /\ UNCHANGED <<ids, chans, runner, sigs, calls, callers, gh, hist, budget>>
    /\ UNCHANGED sup
    /\ UNCHANGED tasks

\* Context::next_event yielding a signal: take the head of the sig-inbox.
BehSignal(s) ==
    /\ Polled(s)
    /\ beh[s] # "parked"
    /\ sigs[s] # <<>>
    /\ sigs' = [sigs EXCEPT ![s] = Tail(@)]
    /\ beh' = [beh EXCEPT ![s] = "run"]
    /\ UNCHANGED <<ids, chans, runner, inbox, calls, recvd, callers, gh, hist, budget>>
    /\ UNCHANGED sup
    /\ UNCHANGED tasks

\* The calls a behaviour may issue: Context::exit (or returning), link,
\* unlink, trap_exit.
CallArgs(s) ==
    {[t |-> "Exit", r |-> r, id |-> NoID, b |-> FALSE] : r \in BehExits}
    \cup {[t |-> "Link", r |-> "-", id |-> id, b |-> FALSE] : id \in KnownIDs \ {rid[s]}}
    \cup {[t |-> "Unlink", r |-> "-", id |-> id, b |-> FALSE] : id \in links[s]}
    \cup {[t |-> "TrapExit", r |-> "-", id |-> NoID, b |-> ~trap[s]]}

\* A Context operation that round-trips to the runner through the calls
\* pipe; Context::exit never returns to the behaviour.
BehCall(s, c) ==
    /\ Polled(s)
    /\ beh[s] # "parked"
    /\ budget.call > 0
    /\ calls[s] = <<>>
    /\ calls' = [calls EXCEPT ![s] = <<c>>]
    /\ beh' = [beh EXCEPT ![s] = IF c.t = "Exit" THEN "parked" ELSE "run"]
    /\ budget' = [budget EXCEPT !.call = @ - 1]
    /\ UNCHANGED <<ids, chans, runner, inbox, sigs, recvd, callers, gh, hist>>
    /\ UNCHANGED sup
    /\ UNCHANGED tasks

\* ------------------------------------------------------------- System
\* System::send
Send(to) ==
    /\ budget.send > 0
    /\ budget' = [budget EXCEPT !.send = @ - 1]
    /\ LET m == [to |-> to, n |-> budget.send, late |-> to \in hist.waited]
       IN IF SendOk(to)
          THEN /\ msgq' = [msgq EXCEPT ![Slot(to)] = Append(@, m)]
               /\ gh' = [gh EXCEPT ![Slot(to)].sent = Append(@, m)]
          ELSE UNCHANGED <<msgq, gh>>
    /\ hist' = [hist EXCEPT !.late = @ \/ to \in hist.waited]
    /\ UNCHANGED <<ids, sysOpen, msgOpen, sysq, runner, pipes, behav, callers>>
    /\ UNCHANGED sup
    /\ UNCHANGED tasks

\* System::exit: the signal names the target itself as its origin.
ExitSignalAnon(id, r) == SigExit(id, NoID, r)
ExitSignal(id, r) == SigExit(id, id, r)

SysExit(id, r) ==
    /\ budget.exit > 0
    /\ budget' = [budget EXCEPT !.exit = @ - 1]
    /\ sysq' = SysPut(sysq, id, ExitSignal(id, r))
    /\ UNCHANGED <<ids, sysOpen, msgOpen, msgq, runner, pipes, behav, callers, gh, hist>>
    /\ UNCHANGED sup
    /\ UNCHANGED tasks

\* System::wait: a refused Wait resolves at once with NoActor, an accepted
\* one awaits the oneshot.
WaitResultPending(accepted) == "pending"
WaitResult(accepted) == IF accepted THEN "pending" ELSE "NoActor"

\* id denotes a live actor: its runner has not begun to terminate and its
\* entry is installed.
Live(id) ==
    /\ rid[Slot(id)] = id
    /\ entry[Slot(id)] = id
    /\ pc[Slot(id)] \in {"linking", "running", "pushing", "sigpush"}

SysWait(id) ==
    /\ budget.wait > 0
    /\ budget' = [budget EXCEPT !.wait = @ - 1]
    /\ sysq' = SysPut(sysq, id, Wait(id, Len(waiter) + 1))
    /\ waiter' = Append(waiter, [id |-> id, live |-> Live(id), acc |-> SendSysMsgOk(id),
                                 res |-> WaitResult(SendSysMsgOk(id)),
                                 at |-> "-", fin |-> "-"])
    /\ hist' = [hist EXCEPT
                    !.waited = IF WaitResult(SendSysMsgOk(id)) # "pending"
                               THEN @ \cup {id} ELSE @]
    /\ UNCHANGED <<ids, sysOpen, msgOpen, msgq, runner, pipes, behav, linkCall, chanRes, gh>>
    /\ UNCHANGED sup
    /\ UNCHANGED tasks

\* System::link, first send: Link(right) to left.
SysLinkLeft(l, r) ==
    /\ budget.link > 0
    /\ linkCall.pc = "idle"
    /\ budget' = [budget EXCEPT !.link = @ - 1]
    /\ sysq' = SysPut(sysq, l, Link(l, r))
    /\ linkCall' = [pc |-> "right", left |-> l, right |-> r, la |-> SendSysMsgOk(l), ra |-> FALSE]
    /\ hist' = [hist EXCEPT !.linkOps = BagAdd(@, {{l, r}})]
    /\ UNCHANGED <<ids, sysOpen, msgOpen, msgq, runner, pipes, behav, waiter, chanRes, gh>>
    /\ UNCHANGED sup
    /\ UNCHANGED tasks

\* System::link, second send: Link(left) to right.
SysLinkRight ==
    /\ linkCall.pc = "right"
    /\ sysq' = SysPut(sysq, linkCall.right, Link(linkCall.right, linkCall.left))
    /\ linkCall' = [linkCall EXCEPT !.pc = "comp", !.ra = SendSysMsgOk(linkCall.right)]
    /\ UNCHANGED <<ids, sysOpen, msgOpen, msgq, runner, pipes, behav, waiter, chanRes, gh,
                   hist, budget>>
    /\ UNCHANGED sup
    /\ UNCHANGED tasks

\* System::link, the compensation: SigExit(other, NoActor) to the side that
\* accepted when the other did not.
LinkCompensationSwapped(l, r, la, ra) ==
    (IF ~ra THEN <<SigExit(r, l, "NoActor")>> ELSE <<>>)
    \o (IF ~la THEN <<SigExit(l, r, "NoActor")>> ELSE <<>>)
LinkCompensation(l, r, la, ra) ==
    (IF ~ra THEN <<SigExit(l, r, "NoActor")>> ELSE <<>>)
    \o (IF ~la THEN <<SigExit(r, l, "NoActor")>> ELSE <<>>)

SysLinkComp ==
    /\ linkCall.pc = "comp"
    /\ sysq' = SysPutAll(sysq, LinkCompensation(linkCall.left, linkCall.right,
                                                linkCall.la, linkCall.ra))
    /\ linkCall' = [linkCall EXCEPT !.pc = "idle"]
    /\ hist' = [hist EXCEPT
                    !.sysLinked = IF linkCall.la /\ linkCall.ra
                                  THEN @ \cup {<<linkCall.left, linkCall.right>>} ELSE @,
                    !.comp = LinkCompensation(linkCall.left, linkCall.right,
                                              linkCall.la, linkCall.ra)]
    /\ UNCHANGED <<ids, sysOpen, msgOpen, msgq, runner, pipes, behav, waiter, chanRes, gh,
                   budget>>
    /\ UNCHANGED sup
    /\ UNCHANGED tasks

\* System::channel: Err(NoActor) without an entry, else the sender of the
\* entry the slot holds.
ChannelTarget(id) == IF ActorEntryRead(id) = NoEntry THEN NoID ELSE ActorEntryRead(id)

SysChannel(id) ==
    /\ budget.chan > 0
    /\ budget' = [budget EXCEPT !.chan = @ - 1]
    /\ chanRes' = [id |-> id, got |-> ChannelTarget(id)]
    /\ UNCHANGED <<ids, chans, runner, pipes, behav, waiter, linkCall, gh, hist>>
    /\ UNCHANGED sup
    /\ UNCHANGED tasks

\* The last System handle is dropped, and with it the entry table and the
\* senders its entries hold.  A call in progress holds a handle.
SystemDrop ==
    /\ ~hist.gone
    /\ \A s \in Slots : ~putting[s]
    /\ linkCall.pc = "idle"
    /\ hist' = [hist EXCEPT !.gone = TRUE]
    /\ entry' = [s \in Slots |-> NoEntry]
    /\ UNCHANGED <<gen, leased, putting, chans, runner, pipes, behav, callers, gh, budget>>
    /\ UNCHANGED sup
    /\ UNCHANGED tasks

\* ---------------------------------------------------------------- Next
SpawnLinks(s) == {{}} \cup {{id} : id \in KnownIDs}
BehExitCalls == {[t |-> "Exit", r |-> r, id |-> NoID, b |-> FALSE] : r \in BehExits}

Runners(withLinks) ==
    \/ \E s \in Slots : \E L \in (IF withLinks THEN SpawnLinks(s) ELSE {{}}) : SpawnBegin(s, L)
    \/ \E s \in Slots : SpawnPut(s)
    \/ \E s \in Slots : RunnerSys(s)
    \/ \E s \in Slots : RunnerCall(s)
    \/ \E s \in Slots : RunnerNotify(s)
    \/ \E s \in Slots : RunnerDrain(s)
    \/ \E s \in Slots : RunnerTerminate(s)
    \/ \E s \in Slots : \E c \in (IF withLinks THEN CallArgs(s) ELSE BehExitCalls) : BehCall(s, c)
    \/ \E id \in KnownIDs : \E r \in ExitArgs : SysExit(id, r)

Linking ==
    \/ \E s \in Slots : RunnerLink(s)
    \/ \E s \in Slots : RunnerSigPush(s)
    \/ \E s \in Slots : BehSignal(s)
    \/ \E l \in KnownIDs : \E r \in KnownIDs \ {l} : SysLinkLeft(l, r)
    \/ SysLinkRight
    \/ SysLinkComp

Mailing ==
    \/ \E s \in Slots : RunnerMsg(s)
    \/ \E s \in Slots : RunnerPush(s)
    \/ \E s \in Slots : BehRecv(s)
    \/ \E id \in KnownIDs : Send(id)
    \/ \E id \in KnownIDs : SysWait(id)
    \/ \E id \in KnownIDs : SysChannel(id)

NextLinks == Runners(TRUE) \/ Linking
NextMail == Runners(FALSE) \/ Mailing

LinkBudget == [spawn |-> LinkSpawns, send |-> 0, exit |-> LinkExits, wait |-> 0,
               link |-> LinkLinks, chan |-> 0, call |-> LinkCalls,
               info |-> 0]
MailBudget == [spawn |-> MailSpawns, send |-> MailSends, exit |-> MailExits,
               wait |-> MailWaits, link |-> 0, chan |-> MailChannels, call |-> MailCalls,
               info |-> 0]

\* Links and exit signals.
SpecLinks == InitWith(LinkActors, LinkBudget) /\ [][NextLinks]_vars
\* Messages, waits and recycled ids.
SpecMail == InitWith(MailActors, MailBudget) /\ [][NextMail]_vars

\* ------------------------------------------------ links (SpecLinks)
\* The runner of slot s has left its select loop with a final exit reason.
Exiting(s) == pc[s] \in {"notify", "drain"}

\* The runner of slot s has dispatched every signal of its termination.
Dispatched(s) == pc[s] = "drain" /\ sysq[s] = <<>>

\* The actor b is still running.
Running(b) == rid[Slot(b)] = b /\ pc[Slot(b)] \in {"linking", "running", "pushing", "sigpush"}

\* System::link joined a and b with both Link messages accepted, and this is
\* the only link operation on the pair, which nobody has unlinked.
LinkedOnce(a, b) ==
    /\ <<a, b>> \in hist.sysLinked \/ <<b, a>> \in hist.sysLinked
    /\ Count(hist.linkOps, {a, b}) = 1
    /\ {a, b} \notin hist.unlinked

Peers(a) == {p[1] : p \in {q \in hist.sysLinked : q[2] = a}}
                \cup {p[2] : p \in {q \in hist.sysLinked : q[1] = a}}

\* C1: A and B joined by a System::link both accepted, A terminating with a
\* non-normal reason R: B is sent SigExit(A, R) at most once, with no other
\* reason, and once A has dispatched its signals exactly once unless B has
\* stopped running first.
C1_OneSigExitPerLink ==
    \A s \in Slots : \A b \in Peers(rid[s]) :
        (Exiting(s) /\ ~IsNormal(exitReason[s]) /\ LinkedOnce(rid[s], b))
            => /\ \A d \in BagToSet(gh[s].sigOut) : d[1] = b => d[2] = exitReason[s]
               /\ Count(gh[s].sigOut, <<b, exitReason[s]>>) <= 1
               /\ Dispatched(s)
                    => (Count(gh[s].sigOut, <<b, exitReason[s]>>) = 1 \/ ~Running(b))

C1_Witness ==
    \E s \in Slots : \E b \in Peers(rid[s]) :
        /\ Dispatched(s)
        /\ ~IsNormal(exitReason[s])
        /\ LinkedOnce(rid[s], b)
        /\ Count(gh[s].sigOut, <<b, exitReason[s]>>) = 1
        /\ Running(b)

\* The last system message the runner of slot s handled was a SigExit
\* carrying Kill, handled with trap_exit set.
KillHandled(s) ==
    /\ gh[s].last # <<>>
    /\ gh[s].last[1].m.t = "SigExit"
    /\ gh[s].last[1].m.r = "Kill"
    /\ gh[s].last[1].trap

\* C2: an actor that traps exits and handles a SigExit carrying Kill
\* terminates with final reason Kill, and no signal carrying Kill is ever
\* in its sig-inbox or on its way there.
C2_KillNotTrappable ==
    \A s \in Slots :
        /\ \A i \in 1 .. Len(sigs[s]) : sigs[s][i].r # "Kill"
        /\ pc[s] = "sigpush" => held[s][1].r # "Kill"
        /\ KillHandled(s) => (Exiting(s) /\ exitReason[s] = "Kill")

C2_Witness == \E s \in Slots : KillHandled(s) /\ pc[s] = "drain"

\* C10: when the behaviour of an actor spawned with SpawnOpts.links has taken
\* a step, the runner has put every one of those peers into the link set
\* and issued Link(self) towards it.
C10_LinksBeforeBehaviour ==
    \A s \in Slots : beh[s] # "idle" => opts[s] \subseteq gh[s].est

C10_Witness == \E s \in Slots : beh[s] # "idle" /\ opts[s] # {} /\ opts[s] \subseteq gh[s].est

\* The actor of slot s was spawned with b in SpawnOpts.links, its initial
\* Link to b was refused, and this is the only link operation on the pair,
\* which nobody has unlinked.
DeadSpawnLink(s, b) ==
    /\ b \in opts[s] \cap gh[s].refused
    /\ Count(hist.linkOps, {rid[s], b}) = 1
    /\ {rid[s], b} \notin hist.unlinked

\* How many SigExit(b, NoActor) the runner of slot s has handled in its loop
\* with the effect e, and how many wait in its system-message channel.
DeadSeen(s, b, e) == Count(gh[s].seen, <<b, "NoActor", e>>)
DeadHandled(s, b) == DeadSeen(s, b, "exit") + DeadSeen(s, b, "signal") + DeadSeen(s, b, "none")
DeadPending(s, b) ==
    Cardinality({i \in 1 .. Len(sysq[s]) : sysq[s][i] = SigExit(rid[s], b, "NoActor")})

\* C11 as stated: an actor spawned with links = {B}, B terminated and the
\* initial Link refused, handles exactly one SigExit(B, NoActor): it has
\* handled one when it stops, never two, and ends with NoActor unless the
\* signal reached it as an exit signal on its sig-inbox.
C11_DeadLinkObservedOnce ==
    \A s \in Slots : \A b \in opts[s] :
        DeadSpawnLink(s, b)
            => /\ DeadHandled(s, b) <= 1
               /\ Exiting(s) => DeadHandled(s, b) = 1
               /\ (Exiting(s) /\ DeadSeen(s, b, "signal") = 0) => exitReason[s] = "NoActor"

\* C11, amended: exactly one SigExit(B, NoActor) is queued for A by its
\* own runner; while A stays in its loop that signal is either waiting or
\* handled, never both and never twice; handling it terminates A with
\* NoActor when A does not trap exits and pushes exactly one exit signal
\* for B when it does, and it is never ignored.  A that leaves its loop
\* first for another reason discards the signal unhandled.
C11_DeadLinkAtMostOnce ==
    \A s \in Slots : \A b \in opts[s] :
        DeadSpawnLink(s, b)
            => /\ DeadSeen(s, b, "none") = 0
               /\ ~Exiting(s) => (DeadPending(s, b) + DeadHandled(s, b) = 1
                                    /\ DeadSeen(s, b, "exit") = 0)
               /\ Exiting(s) => DeadHandled(s, b) <= 1
               /\ DeadSeen(s, b, "exit") = 1
                    => (Exiting(s) /\ exitReason[s] = "NoActor" /\ DeadSeen(s, b, "signal") = 0)
               /\ (gh[s].last # <<>> /\ gh[s].last[1].m = SigExit(rid[s], b, "NoActor"))
                    => (gh[s].last[1].trap <=> DeadSeen(s, b, "signal") = 1)

C11_Witness ==
    \E s \in Slots : \E b \in opts[s] :
        /\ DeadSpawnLink(s, b)
        /\ Dispatched(s)
        /\ DeadSeen(s, b, "exit") = 1
        /\ exitReason[s] = "NoActor"

C11_WitnessTrapped ==
    \E s \in Slots : \E b \in opts[s] :
        /\ DeadSpawnLink(s, b)
        /\ DeadSeen(s, b, "signal") = 1
        /\ pc[s] = "running"
        /\ <<[from |-> b, r |-> "NoActor"]>> = sigs[s]

\* A System::link call has returned.
LinkReturned == linkCall.pc = "idle" /\ linkCall.left # NoID

\* The System::link call that has returned found a accepting its Link and
\* b refusing it; this is the only link operation on the pair, which
\* nobody has unlinked.
HalfLinked(a, b) ==
    /\ LinkReturned
    /\ \/ (a = linkCall.left /\ b = linkCall.right /\ linkCall.la /\ ~linkCall.ra)
       \/ (a = linkCall.right /\ b = linkCall.left /\ linkCall.ra /\ ~linkCall.la)
    /\ Count(hist.linkOps, {a, b}) = 1
    /\ {a, b} \notin hist.unlinked

\* Where the messages equal to m wait in the system channel of slot s.
Places(s, m) == {i \in 1 .. Len(sysq[s]) : sysq[s][i] = m}

\* C12: a System::link call that returns with both Link messages accepted
\* has sent no SigExit; with exactly one accepted it has sent the accepting
\* side a one SigExit(b, NoActor) and nothing to b; that signal is behind
\* the accepted Link in a's channel, a running a has it waiting or handled,
\* never ignores it, and once a has handled it b is not in a's link set.
C12_CompensatedHalfLink ==
    /\ (LinkReturned /\ linkCall.la /\ linkCall.ra) => hist.comp = <<>>
    /\ \A a \in KnownIDs : \A b \in KnownIDs :
        HalfLinked(a, b)
            => /\ hist.comp = <<SigExit(a, b, "NoActor")>>
               /\ rid[Slot(a)] = a
                    => LET s == Slot(a)
                       IN /\ \A i \in Places(s, SigExit(a, b, "NoActor")) :
                                \A j \in Places(s, Link(a, b)) : j < i
                          /\ DeadSeen(s, b, "none") = 0
                          /\ ~Exiting(s) => DeadPending(s, b) + DeadHandled(s, b) = 1
                          /\ DeadHandled(s, b) <= 1
                          /\ DeadHandled(s, b) = 1
                                => (Places(s, Link(a, b)) = {}
                                    /\ (b \notin links[s] \/ Exiting(s)))

C12_Witness ==
    \E a \in KnownIDs : \E b \in KnownIDs :
        /\ HalfLinked(a, b)
        /\ rid[Slot(a)] = a
        /\ DeadSeen(Slot(a), b, "signal") = 1
        /\ pc[Slot(a)] = "running"
        /\ b \notin links[Slot(a)]

C12_WitnessBoth ==
    /\ LinkReturned /\ linkCall.la /\ linkCall.ra
    /\ \A s \in Slots : sysq[s] = <<>> /\ rid[s] \in {linkCall.left, linkCall.right}

\* The runner of slot s takes the SigExit at the head of its system channel
\* in its select loop; the signal comes from a linked peer.
PeerSigExit(s) ==
    /\ pc[s] = "running"
    /\ sysq[s] # <<>>
    /\ Head(sysq[s]).t = "SigExit"
    /\ Head(sysq[s]).from # rid[s]
    /\ Head(sysq[s]).from \in links[s]
    /\ RunnerSys(s)

\* The last system message the runner of slot s handled was a SigExit from
\* a linked peer.
PeerSigExitHandled(s) ==
    /\ gh[s].last # <<>>
    /\ gh[s].last[1].m.t = "SigExit"
    /\ gh[s].last[1].m.from # rid[s]
    /\ gh[s].last[1].linked

\* C14: a runner that does not trap exits and handles SigExit(B, Normal)
\* from a linked peer B removes B from its link set and stays in its loop
\* without a final exit reason.
C14_NormalExitOfPeerIsHarmless ==
    [][\A s \in Slots :
        (PeerSigExit(s) /\ ~trap[s] /\ IsNormal(Head(sysq[s]).r))
            => /\ pc'[s] = "running"
               /\ exitReason'[s] = "-"
               /\ sysOpen'[s] /\ msgOpen'[s]
               /\ links'[s] = links[s] \ {Head(sysq[s]).from}]_vars

C14_Witness ==
    \E s \in Slots :
        /\ PeerSigExitHandled(s)
        /\ IsNormal(gh[s].last[1].m.r)
        /\ ~gh[s].last[1].trap
        /\ pc[s] = "running"
        /\ gh[s].last[1].m.from \notin links[s]

\* C15: a runner that handles SigExit(B, R), R not Kill, from a linked peer
\* B: with trap_exit set it stays in its loop, removes B from its link set
\* and puts exactly one signal Exited(B, R) on its sig-inbox (or holds it
\* until the full sig-inbox has room); without trap_exit and with R not
\* normal it leaves the loop with final reason R.
C15_TrapTurnsExitIntoSignal ==
    [][\A s \in Slots :
        (PeerSigExit(s) /\ Head(sysq[s]).r # "Kill")
            => LET b == Head(sysq[s]).from
                   r == Head(sysq[s]).r
                   sig == <<[from |-> b, r |-> r]>>
               IN /\ trap[s]
                    => /\ pc'[s] \in {"running", "sigpush"}
                       /\ exitReason'[s] = "-"
                       /\ links'[s] = links[s] \ {b}
                       /\ \/ sigs'[s] = sigs[s] \o sig /\ held'[s] = held[s]
                                /\ pc'[s] = "running"
                          \/ sigs'[s] = sigs[s] /\ held'[s] = sig /\ pc'[s] = "sigpush"
                                /\ Full(sigs[s], SigInboxSize)
                  /\ (~trap[s] /\ ~IsNormal(r))
                    => (pc'[s] = "notify" /\ exitReason'[s] = r /\ sigs'[s] = sigs[s])]_vars

C15_Witness ==
    \E s \in Slots :
        /\ PeerSigExitHandled(s)
        /\ gh[s].last[1].m.r = "Shutdown"
        /\ gh[s].last[1].trap
        /\ pc[s] = "running"
        /\ sigs[s] = <<[from |-> gh[s].last[1].m.from, r |-> "Shutdown"]>>
        /\ gh[s].last[1].m.from \notin links[s]

C15_WitnessFatal ==
    \E s \in Slots :
        /\ PeerSigExitHandled(s)
        /\ gh[s].last[1].m.r = "Shutdown"
        /\ ~gh[s].last[1].trap
        /\ Exiting(s) /\ exitReason[s] = "Shutdown"

\* ------------------------------------------------ System::exit (SpecExit)
\* The receivers of slot s are closed.
Closed(s) == ~sysOpen[s] /\ ~msgOpen[s]

\* Every peer in the link set of slot s has been sent SigExit(self, R).
PeersNotified(s) == \A p \in links[s] : <<p, exitReason[s]>> \in gh[s].notified

\* C22: a runner that has left its loop has closed its receivers before
\* it sends anything; when it drains, every peer of its link set has been
\* sent SigExit(self, R); the drain changes neither links nor trap_exit;
\* the entry stays in the table as long as the runner exists, and the step
\* that clears it finds the receivers closed, the peers notified and the
\* system channel drained.
C22_TerminationOrder ==
    /\ [](\A s \in Slots :
            /\ Exiting(s) => Closed(s)
            /\ pc[s] = "notify" => gh[s].notified = {}
            /\ pc[s] = "drain" => PeersNotified(s)
            /\ (rid[s] # NoID /\ entry[s] # rid[s]) => putting[s])
    /\ [][\A s \in Slots :
            /\ (Exiting(s) /\ pc'[s] # "none")
                    => Exiting(s)' /\ links'[s] = links[s] /\ trap'[s] = trap[s]
            /\ (entry[s] # NoEntry /\ entry'[s] = NoEntry)
                    => /\ entry[s] = rid[s] /\ Closed(s) /\ PeersNotified(s)
                       /\ pc[s] = "drain" /\ sysq[s] = <<>>]_vars

\* A runner with a linked peer, terminating with a reason other than
\* normal, has notified the peer and drained its system channel; its entry
\* is still in the table.
C22_Witness ==
    \E s \in Slots :
        /\ pc[s] = "drain" /\ sysq[s] = <<>>
        /\ links[s] # {} /\ ~IsNormal(exitReason[s])
        /\ entry[s] = rid[s]
        /\ \E p \in links[s] : Count(gh[s].sigOut, <<p, exitReason[s]>>) > 0

\* The answer of a terminating runner to a Link from peer p.
DrainReply(s, p) ==
    IF IsNormal(exitReason[s]) THEN Unlink(p, rid[s]) ELSE SigExit(p, rid[s], exitReason[s])

\* C23: a step in which a runner that has left its loop takes a system
\* message m out of its channel: for a Link(p) the answer, Unlink(self)
\* after a normal exit and SigExit(self, R) otherwise, is put at the back
\* of p's channel if that accepts it and no other channel changes; for an
\* Unlink or a SigExit no channel changes; in each case the runner's
\* links, trap_exit, exit reason and signal inbox stay as they are.
C23_LinkAnsweredInDrain ==
    [][\A s \in Slots :
        (pc[s] = "drain" /\ sysq'[s] # sysq[s])
            => LET m == Head(sysq[s])
                   p == m.from
               IN /\ sysq'[s] = Tail(sysq[s])
                  /\ links'[s] = links[s] /\ trap'[s] = trap[s] /\ sigs'[s] = sigs[s]
                  /\ exitReason'[s] = exitReason[s] /\ pc'[s] = "drain"
                  /\ m.t = "Link"
                        => \A u \in Slots \ {s} :
                              sysq'[u] = IF u = Slot(p) /\ SendSysMsgOk(p)
                                         THEN Append(sysq[u], DrainReply(s, p))
                                         ELSE sysq[u]
                  /\ m.t \in {"Unlink", "SigExit"}
                        => \A u \in Slots \ {s} : sysq'[u] = sysq[u]]_vars

\* A peer that the terminating runner does not hold in its link set, and
\* so did not notify, has the runner's SigExit(self, R) in its channel.
C23_Witness ==
    \E s \in Slots : \E u \in Slots \ {s} :
        /\ pc[s] = "drain" /\ ~IsNormal(exitReason[s])
        /\ rid[u] \notin links[s]
        /\ SigExit(rid[u], rid[s], exitReason[s]) \in Range(sysq[u])

\* The same after a normal exit: the peer holds the runner in its link set
\* and has the runner's Unlink(self) in its channel.
C23_WitnessNormal ==
    \E s \in Slots : \E u \in Slots \ {s} :
        /\ pc[s] = "drain" /\ IsNormal(exitReason[s])
        /\ rid[u] \notin links[s] /\ rid[s] \in links[u]
        /\ Unlink(rid[u], rid[s]) \in Range(sysq[u])

LinkSlots == 0 .. (LinkActors - 1)
LinkGens == 0 .. (ExitSpawns - 1)
FatalArgs == ExitArgs \ {"Normal"}

\* The scheduler polls a runner task that can make progress.
RunnerStep(s) ==
    \/ RunnerLink(s)
    \/ RunnerSys(s)
    \/ RunnerCall(s)
    \/ RunnerSigPush(s)
    \/ RunnerNotify(s)
    \/ RunnerDrain(s)
    \/ RunnerTerminate(s)

NextExit ==
    \/ Runners(TRUE)
    \/ \E s \in Slots : RunnerLink(s)
    \/ \E s \in Slots : RunnerSigPush(s)
    \/ \E s \in Slots : BehSignal(s)

ExitBudget == [spawn |-> ExitSpawns, send |-> 0, exit |-> ExitSignals, wait |-> 0,
               link |-> 0, chan |-> 0, call |-> ExitBehCalls,
               info |-> 0]

\* System::exit against actors that link, trap and exit, with runner tasks
\* that are polled whenever they can make progress.
SpecExit ==
    /\ InitWith(LinkActors, ExitBudget)
    /\ [][NextExit]_vars
    /\ \A s \in LinkSlots : WF_vars(RunnerStep(s))

\* The signal of System::exit(a, r) is in the channel of the live actor a,
\* which does not trap exits.
ExitQueued(a, r) ==
    /\ Running(a)
    /\ entry[Slot(a)] = a
    /\ ~trap[Slot(a)]
    /\ ExitSignal(a, r) \in Range(sysq[Slot(a)])

\* The actor a has taken its final exit, with reason r.
ExitedWith(a, r) == rid[Slot(a)] = a /\ Exiting(Slot(a)) /\ exitReason[Slot(a)] = r

\* The last system message the runner of slot s handled was the signal of a
\* System::exit with a reason other than normal, handled with trap_exit off.
ExitHandled(s) ==
    /\ gh[s].last # <<>>
    /\ gh[s].last[1].m \in {ExitSignal(rid[s], r) : r \in FatalArgs}
    /\ ~gh[s].last[1].trap

Waiters == DOMAIN waiter

\* C4: every System::wait(A) whose Wait was accepted by a live actor A
\* resolves only after A has terminated, and with A's final exit reason;
\* also when the Wait is still queued as A starts terminating.
C4_WaitResolvesWithFinalReason ==
    \A w \in Waiters :
        (waiter[w].live /\ waiter[w].acc /\ waiter[w].res # "pending")
            => (waiter[w].at = "terminated" /\ waiter[w].res = waiter[w].fin)

\* C5: System::wait(id) for an id that denotes no live actor (vacant slot,
\* stale generation, closed system-message channel) returns NoActor at the
\* call itself, resolved by no later event.
C5_WaitNoActorAtOnce ==
    \A w \in Waiters :
        ~waiter[w].live => (~waiter[w].acc /\ waiter[w].res = "NoActor" /\ waiter[w].at = "-")

C5_Witness ==
    \E w \in Waiters :
        /\ ~waiter[w].live
        /\ waiter[w].res = "NoActor"
        /\ entry[Slot(waiter[w].id)] = NoEntry

\* ------------------------------------------- addressing (SpecMail)
\* Every user message the slot s holds or its behaviour has received.
Mail(s) == recvd[s] \o inbox[s] \o (IF pc[s] = "pushing" THEN held[s] ELSE <<>>) \o msgq[s]

Stale(x) == x[2] < gen[Slot(x)]

C7_Addressed ==
    \A s \in Slots :
        /\ \A m \in Range(Mail(s)) : m.to = rid[s]
        /\ \A m \in Range(sysq[s]) : m.to = rid[s]
        /\ \A w \in waits[s] : waiter[w].id = rid[s]

C7_StaleDropped ==
    \A x \in KnownIDs :
        (Stale(x) /\ (Send(x) \/ SysWait(x) \/ \E r \in ExitArgs : SysExit(x, r)))
            => UNCHANGED <<ids, chans, runner, pipes, behav, gh>>

C7_NoMisdelivery == []C7_Addressed /\ [][C7_StaleDropped]_vars

C7_Witness ==
    \E w \in Waiters :
        LET s == Slot(waiter[w].id)
        IN /\ ~waiter[w].acc
           /\ rid[s] # NoID
           /\ entry[s] = rid[s]
           /\ pc[s] = "running"
           /\ waiter[w].id[2] < rid[s][2]
           /\ gh[s].sent # <<>>

\* C8: System::channel(id) never hands out a sender that reaches an actor
\* whose id differs from id; for a stale id or a vacant slot it gives
\* Err(NoActor).
C8_ChannelNeverReachesOther == chanRes.got \in {NoID, chanRes.id}

\* C9: the messages System::send has put into A's channel reach A's
\* behaviour exactly once each and in send order: what the behaviour has
\* received, followed by what the msg-inbox, the suspended push and the
\* channel still hold, is the sequence of the messages sent.
C9_FifoExactlyOnce ==
    \A s \in Slots : rid[s] # NoID => gh[s].sent = Mail(s)

C9_Witness ==
    \E s \in Slots :
        /\ Len(recvd[s]) = MailSends
        /\ recvd[s] = gh[s].sent

\* C24: the runner leaves a user message in the unbounded channel until the
\* msg-inbox has room for it: the messages sent to an actor are those its
\* behaviour has received, followed by those in the msg-inbox and those in
\* the channel, and nothing is held anywhere else.
C24_SuspendsBeforeConsuming ==
    \A s \in Slots : rid[s] # NoID => gh[s].sent = recvd[s] \o inbox[s] \o msgq[s]

\* ---------------------------------------- link convergence (SpecConv)
\* Actors that are spawned with and without links, are linked by
\* System::link and are terminated by System::exit; their behaviours wait.
NextConv ==
    \/ \E s \in Slots : \E L \in SpawnLinks(s) : SpawnBegin(s, L)
    \/ \E s \in Slots : SpawnPut(s)
    \/ \E s \in Slots : RunnerLink(s)
    \/ \E s \in Slots : RunnerSys(s)
    \/ \E s \in Slots : RunnerNotify(s)
    \/ \E s \in Slots : RunnerDrain(s)
    \/ \E s \in Slots : RunnerTerminate(s)
    \/ \E id \in KnownIDs : \E r \in ExitArgs : SysExit(id, r)
    \/ \E l \in KnownIDs : \E r \in KnownIDs \ {l} : SysLinkLeft(l, r)
    \/ SysLinkRight
    \/ SysLinkComp

ConvBudget == [spawn |-> LinkSpawns, send |-> 0, exit |-> LinkExits, wait |-> 0,
               link |-> LinkLinks, chan |-> 0, call |-> 0,
               info |-> 0]

\* Runner tasks are polled whenever they can make progress, a spawn call
\* installs its entry and a System::link call runs to its end.
SpecConv ==
    /\ InitWith(LinkActors, ConvBudget)
    /\ [][NextConv]_vars
    /\ \A s \in LinkSlots : WF_vars(RunnerStep(s)) /\ WF_vars(SpawnPut(s))
    /\ WF_vars(SysLinkRight)
    /\ WF_vars(SysLinkComp)

ConvIDs == LinkSlots \X LinkGens

\* The actor a is in its runner's hands (not yet terminated) and holds b in
\* its link set.
Holds(a, b) == rid[Slot(a)] = a /\ b \in links[Slot(a)]

\* The actor a has terminated: its runner is gone.
Terminated(a) == rid[Slot(a)] # a

\* C13: whenever a live A has B in its link set, eventually B has A in its
\* link set, or B has terminated and A no longer has B in its link set, or
\* A has terminated.
C13_LinksConverge ==
    \A a \in ConvIDs : \A b \in ConvIDs :
        (Running(a) /\ Holds(a, b))
            ~> \/ Holds(b, a)
               \/ (Terminated(b) /\ ~Holds(a, b))
               \/ Terminated(a)

\* ------------------------------------------ Context::exit (SpecQuit)
\* An actor that is sent messages and whose behaviour receives them or
\* does not, and at some point calls Context::exit or returns.
NextQuit ==
    \/ \E s \in Slots : SpawnBegin(s, {})
    \/ \E s \in Slots : SpawnPut(s)
    \/ \E s \in Slots : RunnerCall(s)
    \/ \E s \in Slots : RunnerMsg(s)
    \/ \E s \in Slots : RunnerPush(s)
    \/ \E s \in Slots : RunnerNotify(s)
    \/ \E s \in Slots : RunnerTerminate(s)
    \/ \E s \in Slots : BehRecv(s)
    \/ \E s \in Slots : \E c \in BehExitCalls : BehCall(s, c)
    \/ \E id \in KnownIDs : Send(id)

QuitBudget == [spawn |-> MailSpawns, send |-> MailSends, exit |-> 0, wait |-> 0,
               link |-> 0, chan |-> 0, call |-> MailCalls,
               info |-> 0]

MailSlots == 0 .. (MailActors - 1)
MailGens == 0 .. (MailSpawns - 1)

\* The scheduler polls a runner task that can make progress: any ready arm
\* of its select, a suspended push that has room, the steps of its exit.
QuitStep(s) == RunnerStep(s) \/ RunnerMsg(s) \/ RunnerPush(s)

SpecQuit ==
    /\ InitWith(MailActors, QuitBudget)
    /\ [][NextQuit]_vars
    /\ \A s \in MailSlots : WF_vars(QuitStep(s)) /\ WF_vars(SpawnPut(s))

\* The behaviour of the actor a has invoked Context::exit(r) (or returned a
\* value that converts to r): the call is in the calls pipe.
ExitInvoked(a, r) ==
    /\ rid[Slot(a)] = a
    /\ calls[Slot(a)] = <<[t |-> "Exit", r |-> r, id |-> NoID, b |-> FALSE]>>

\* C16: after the behaviour of an actor has invoked Context::exit(R), the
\* actor eventually takes its final exit, with final reason R.
C16_ExitCallTerminates ==
    \A s \in MailSlots : \A g \in MailGens : \A r \in BehExits :
        ExitInvoked(<<s, g>>, r) ~> ExitedWith(<<s, g>>, r)

\* The runner of slot s has finished terminating and the lease of its id
\* is still held.
Finished(s) == pc[s] = "none" /\ leased[s]

\* C31: once the runner of a spawned actor has finished terminating, the
\* entry of its slot is eventually vacant and the lease of its id released.
C31_EntryVacatedAfterExit ==
    \A s \in MailSlots : Finished(s) ~> (entry[s] = NoEntry /\ ~leased[s])

\* ------------------------------------------------- Kill (SpecKill)
KillArgs == {"Shutdown", "Kill"}
TrapCalls(s) == {[t |-> "TrapExit", r |-> "-", id |-> NoID, b |-> ~trap[s]]}

\* An actor that may trap exits and may or may not read its inboxes is sent
\* messages and is told to shut down and killed from outside.
NextKill ==
    \/ \E s \in Slots : SpawnBegin(s, {})
    \/ \E s \in Slots : SpawnPut(s)
    \/ \E s \in Slots : RunnerSys(s)
    \/ \E s \in Slots : RunnerCall(s)
    \/ \E s \in Slots : RunnerMsg(s)
    \/ \E s \in Slots : RunnerPush(s)
    \/ \E s \in Slots : RunnerSigPush(s)
    \/ \E s \in Slots : RunnerNotify(s)
    \/ \E s \in Slots : RunnerDrain(s)
    \/ \E s \in Slots : RunnerTerminate(s)
    \/ \E s \in Slots : BehRecv(s)
    \/ \E s \in Slots : BehSignal(s)
    \/ \E s \in Slots : \E c \in TrapCalls(s) : BehCall(s, c)
    \/ \E id \in KnownIDs : Send(id)
    \/ \E id \in KnownIDs : \E r \in KillArgs : SysExit(id, r)

KillBudget == [spawn |-> KillSpawns, send |-> MailSends, exit |-> KillExits, wait |-> 0,
               link |-> 0, chan |-> 0, call |-> KillCalls,
               info |-> 0]

\* Runner tasks are polled whenever they can make progress and a spawn
\* call installs its entry; nothing is assumed of the behaviour.
SpecKill ==
    /\ InitWith(MailActors, KillBudget)
    /\ [][NextKill]_vars
    /\ \A s \in MailSlots : WF_vars(QuitStep(s)) /\ WF_vars(SpawnPut(s))

KillGens == 0 .. (KillSpawns - 1)

\* The signal of System::exit(a, Kill) is in the channel of the live actor a.
KillQueued(a) ==
    /\ Running(a)
    /\ entry[Slot(a)] = a
    /\ ExitSignal(a, "Kill") \in Range(sysq[Slot(a)])

\* C25: once System::exit(A, Kill) is accepted by the live actor A, A
\* eventually leaves its loop for its termination, whatever its behaviour
\* does.
C25_KillTerminates ==
    \A s \in MailSlots : \A g \in KillGens :
        KillQueued(<<s, g>>) ~> (rid[s] # <<s, g>> \/ Exiting(s))

\* ---------------------------------------- runner faults (SpecFault)
\* Actors are spawned, with and without links, a sender to one of them may
\* be taken with System::channel, and the System is dropped while they
\* run.
NextFault ==
    \/ \E s \in Slots : \E L \in SpawnLinks(s) : ~hist.gone /\ SpawnBegin(s, L)
    \/ \E s \in Slots : SpawnPut(s)
    \/ \E id \in KnownIDs : ~hist.gone /\ SysChannel(id)
    \/ SystemDrop
    \/ \E s \in Slots : RunnerLink(s)
    \/ \E s \in Slots : RunnerSys(s)
    \/ \E s \in Slots : RunnerMsgClosed(s)
    \/ \E s \in Slots : RunnerNotify(s)
    \/ \E s \in Slots : RunnerDrain(s)
    \/ \E s \in Slots : RunnerTerminate(s)

FaultBudget == [spawn |-> FaultSpawns, send |-> 0, exit |-> 0, wait |-> 0,
               link |-> 0, chan |-> FaultChannels, call |-> 0,
               info |-> 0]

SpecFault == InitWith(LinkActors, FaultBudget) /\ [][NextFault]_vars

FutureCalls == {[t |-> "FutureToInbox", r |-> "-", id |-> NoID, b |-> FALSE, n |-> budget.call]}

\* An actor whose behaviour attaches futures, receives and may exit, and
\* that is sent user messages.
NextTask ==
    \/ \E s \in Slots : SpawnBegin(s, {})
    \/ \E s \in Slots : SpawnPut(s)
    \/ \E s \in Slots : RunnerCall(s)
    \/ \E s \in Slots : RunnerMsg(s)
    \/ \E s \in Slots : RunnerTask(s)
    \/ \E s \in Slots : RunnerPush(s)
    \/ \E s \in Slots : RunnerNotify(s)
    \/ \E s \in Slots : RunnerTerminate(s)
    \/ \E s \in Slots : FutureReady(s)
    \/ \E s \in Slots : BehRecv(s)
    \/ \E s \in Slots : \E c \in FutureCalls \cup BehExitCalls : BehCall(s, c)
    \/ \E id \in KnownIDs : Send(id)

TaskBudget == [spawn |-> TaskSpawns, send |-> TaskSends, exit |-> 0, wait |-> 0,
               link |-> 0, chan |-> 0, call |-> TaskCalls,
               info |-> 0]

SpecTask == InitWith(MailActors, TaskBudget) /\ [][NextTask]_vars

\* The outputs of futures among what the behaviour of slot s has received,
\* what its msg-inbox holds and what a suspended push holds.
Outputs(s) ==
    SelectSeq(recvd[s] \o inbox[s] \o (IF pc[s] = "pushing" THEN held[s] ELSE <<>>), IsOutput)

\* C27: the futures the runner has attached are those still in its set of
\* tasks and those whose output is in the msg-inbox, held by a suspended
\* push or received; no output is there twice, none is there while its
\* future is still in the set or before the future completed; the
\* msg-inbox never exceeds its capacity; and no runner takes the task
\* source for closed: none exits with RxClosed.
C27_FutureOutputOnce ==
    \A s \in Slots :
        LET out == {Outputs(s)[i].n : i \in 1 .. Len(Outputs(s))}
            run == {f.n : f \in tasks[s]}
        IN /\ Cardinality(out) = Len(Outputs(s))
           /\ out \cap run = {}
           /\ out \cup run = gh[s].attached
           /\ out \subseteq gh[s].completed
           /\ Len(inbox[s]) <= MsgInboxSize
           /\ ~gh[s].fault /\ exitReason[s] # "RxClosed"

\* The behaviour has received the outputs of two futures among more
\* messages than the msg-inbox holds, and no future is attached any more
\* while the runner is in its loop.
C27_Witness ==
    \E s \in Slots :
        /\ pc[s] = "running" /\ tasks[s] = {}
        /\ Len(SelectSeq(recvd[s], IsOutput)) = 2
        /\ Len(recvd[s]) > MsgInboxSize

\* --------------------------------------- one-for-one decider (SpecSup)
\* What an actor_down report sets off: a shutdown ("sup", "exceeded",
\* "unknown"), a restart ("start") or nothing ("ignored").
Verdict(d, at, id) ==
    IF id = SupID THEN "sup"
    ELSE IF id \in d.ignored THEN "ignored"
    ELSE IF ChildIdx(d, id) = -1 THEN "unknown"
    ELSE IF Report(d.failures[ChildIdx(d, id) + 1], at).exceeded THEN "exceeded"
    ELSE "start"

Shutdowns == {"sup", "exceeded", "unknown"}

\* The supervisor feeds an exit signal to the decider.  The signal names
\* the supervisor itself, a child that has not been reported yet, or a
\* linked actor that is no child.
SupActorDown(at, id, r) ==
    /\ sup.left > 0
    /\ at >= sup.now
    /\ \/ id = SupID
       \/ ChildIdx(sup.d, id) # -1 /\ id \notin sup.down
       \/ id = sup.fresh
    /\ LET v == Verdict(sup.d, at, id)
       IN sup' = [sup EXCEPT
            !.d = ActorDown(@, at, id, r),
            !.now = at,
            !.left = @ - 1,
            !.fresh = IF id = sup.fresh THEN @ + 1 ELSE @,
            !.down = @ \cup {id},
            !.started = IF v = "start" THEN @ \cup {id} ELSE @,
            !.last = <<[at |-> at, id |-> id, r |-> r, idx |-> ChildIdx(sup.d, id),
                        verdict |-> v, before |-> sup.d.pending]>>,
            !.shut = IF v \notin Shutdowns THEN @
                     ELSE IF @ = <<>>
                     THEN <<[from |-> Len(sup.out), kind |-> v, r |-> r, again |-> FALSE,
                             seq |-> ActorDown(sup.d, at, id, r).pending]>>
                     ELSE <<[@[1] EXCEPT !.again = @ \/ v \in {"sup", "unknown"}]>>]
    /\ UNCHANGED runtime
    /\ UNCHANGED tasks

\* The supervisor pulls the next action; a Start it pulls is carried out.
SupNextAction ==
    /\ sup.d.pending # <<>>
    /\ LET a == Head(sup.d.pending)
       IN sup' = [sup EXCEPT
            !.d.pending = Tail(@),
            !.out = Append(@, a),
            !.starting = IF a.t = "Start" THEN @ \cup {a.idx} ELSE @]
    /\ UNCHANGED runtime
    /\ UNCHANGED tasks

\* A child the supervisor has started is up under a new id.
SupChildUp(idx) ==
    /\ idx \in sup.starting
    /\ sup' = [sup EXCEPT
            !.d = ChildUp(@, idx, sup.fresh),
            !.fresh = @ + 1,
            !.starting = @ \ {idx}]
    /\ UNCHANGED runtime
    /\ UNCHANGED tasks

SupActors == 0 .. (SupChildren + SupDowns + 1)

NextSup ==
    \/ \E at \in 0 .. SupMaxTime : \E id \in SupActors : \E r \in SupReasons :
            SupActorDown(at, id, r)
    \/ SupNextAction
    \/ \E idx \in 0 .. (SupChildren - 1) : SupChildUp(idx)

NoBudget == [spawn |-> 0, send |-> 0, exit |-> 0, wait |-> 0, link |-> 0, chan |-> 0,
             call |-> 0,
               info |-> 0]

\* A one-for-one decider fed with reports and asked for actions.
SpecSup == InitWith(MailActors, NoBudget) /\ [][NextSup]_vars

\* The latest report named the current id of a child whose failures stay
\* within the frequency policy.
WithinBudget == sup.last # <<>> /\ sup.last[1].idx # -1 /\ sup.last[1].verdict # "exceeded"

\* C17 as stated: an actor_down for the current id of child i, with i's
\* failures within the frequency policy, adds exactly Start(i) to the
\* pending actions and nothing else.
C17_WithinBudgetStartsChild ==
    [][\A at \in 0 .. SupMaxTime : \A id \in SupActors : \A r \in SupReasons :
        (SupActorDown(at, id, r)
            /\ ChildIdx(sup.d, id) # -1
            /\ ~Report(sup.d.failures[ChildIdx(sup.d, id) + 1], at).exceeded)
            => sup'.d.pending = Append(sup.d.pending, Start(ChildIdx(sup.d, id)))]_vars

\* C17, amended: the same for an id that is not among the ignored exits;
\* an id among them is absorbed and the pending actions stay as they are.
C17_StartsChildUnlessIgnored ==
    [][\A at \in 0 .. SupMaxTime : \A id \in SupActors : \A r \in SupReasons :
        (SupActorDown(at, id, r) /\ ChildIdx(sup.d, id) # -1)
            => /\ Verdict(sup.d, at, id) = "start"
                    => sup'.d.pending = Append(sup.d.pending, Start(ChildIdx(sup.d, id)))
               /\ Verdict(sup.d, at, id) = "ignored"
                    => sup'.d.pending = sup.d.pending]_vars

C17_Witness ==
    /\ WithinBudget
    /\ sup.last[1].verdict = "start"
    /\ sup.last[1].before # <<>>
    /\ sup.d.pending = Append(sup.last[1].before, Start(sup.last[1].idx))

C17_WitnessIgnored ==
    /\ WithinBudget
    /\ sup.last[1].verdict = "ignored"
    /\ sup.d.pending = sup.last[1].before

\* What the claim tells about an action: the index of a Start or Stop,
\* the reason of an Exit.
Shape(a) == IF a.t = "Exit" THEN <<a.t, a.r>> ELSE <<a.t, a.idx>>

\* s and q have the same shapes as far as both go.
Compatible(s, q) ==
    \A i \in 1 .. (IF Len(s) < Len(q) THEN Len(s) ELSE Len(q)) : Shape(s[i]) = Shape(q[i])

\* The actions yielded since the first shutdown was initiated.
SinceShutdown == SubSeq(sup.out, sup.shut[1].from + 1, Len(sup.out))

\* C18: after a down report for the supervisor's own id, and with no
\* further down report for the supervisor or for an unknown actor,
\* next_action yields Stop of every child, last index first, then
\* Exit(reason), and nothing before or between them.
C18_ShutdownSequence ==
    (sup.shut # <<>> /\ sup.shut[1].kind = "sup" /\ ~sup.shut[1].again)
        => Compatible(SinceShutdown, sup.shut[1].seq)

\* A shutdown has been initiated and next_action has since yielded the
\* Stop of the child with this id.
StoppedInShutdown(id) ==
    /\ sup.shut # <<>>
    /\ \E i \in 1 .. Len(SinceShutdown) :
            SinceShutdown[i].t = "Stop" /\ SinceShutdown[i].id = id

\* C28: an actor_down for an id among the ignored exits, or for a child
\* that has been stopped during a shutdown, takes the id out of the
\* ignored exits and changes neither the pending actions, nor the
\* children, nor the failure counters.
C28_IgnoredExitAbsorbed ==
    [][\A at \in 0 .. SupMaxTime : \A id \in SupActors : \A r \in SupReasons :
        (SupActorDown(at, id, r) /\ (id \in sup.d.ignored \/ StoppedInShutdown(id)))
            => /\ sup'.d.ignored = sup.d.ignored \ {id}
               /\ sup'.d.pending = sup.d.pending
               /\ sup'.d.children = sup.d.children
               /\ sup'.d.failures = sup.d.failures]_vars

\* C29: among the actions next_action yields once a shutdown has been
\* initiated there is no Start, no child is stopped twice, and nothing
\* follows an Exit.
C29_ExitIsLast ==
    sup.shut # <<>>
        => \A i \in 1 .. Len(SinceShutdown) :
            /\ SinceShutdown[i].t # "Start"
            /\ SinceShutdown[i].t = "Exit" => i = Len(SinceShutdown)
            /\ \A j \in 1 .. Len(SinceShutdown) :
                (i # j /\ SinceShutdown[i].t = "Stop" /\ SinceShutdown[j].t = "Stop")
                    => SinceShutdown[i].idx # SinceShutdown[j].idx

\* ------------------------------------------- repeated reports (SpecDup)
\* actor_down is called once more for an id that was reported before and
\* is still the id of a child.
SupActorDownAgain(at, id, r) ==
    /\ sup.left > 0
    /\ at >= sup.now
    /\ id # SupID
    /\ id \in sup.down
    /\ ChildIdx(sup.d, id) # -1
    /\ LET v == Verdict(sup.d, at, id)
       IN sup' = [sup EXCEPT
            !.d = ActorDown(@, at, id, r),
            !.now = at,
            !.left = @ - 1,
            !.started = IF v = "start" THEN @ \cup {id} ELSE @,
            !.last = <<[at |-> at, id |-> id, r |-> r, idx |-> ChildIdx(sup.d, id),
                        verdict |-> v, before |-> sup.d.pending]>>,
            !.shut = IF v \notin Shutdowns THEN @
                     ELSE IF @ = <<>>
                     THEN <<[from |-> Len(sup.out), kind |-> v, r |-> r, again |-> FALSE,
                             seq |-> ActorDown(sup.d, at, id, r).pending]>>
                     ELSE <<[@[1] EXCEPT !.again = @ \/ v \in {"sup", "unknown"}]>>]
    /\ UNCHANGED runtime
    /\ UNCHANGED tasks

NextDup ==
    \/ NextSup
    \/ \E at \in 0 .. SupMaxTime : \E id \in SupActors : \E r \in SupReasons :
            SupActorDownAgain(at, id, r)

\* A one-for-one decider that may be told of the same exit more than once.
SpecDup == InitWith(MailActors, NoBudget) /\ [][NextDup]_vars

\* A step in which actor_down was called.
Reported == sup.left' < sup.left

\* C30: a report that pushes a Start puts it behind every action already
\* queued, next_action takes the queued actions from the front, and a
\* report pushes a Start only for an id for which no earlier report has
\* pushed one.
C30_OrderedAndOnce ==
    [][/\ (Reported /\ sup.last'[1].verdict = "start")
            => /\ sup.d.pending' = Append(sup.d.pending, Start(sup.last'[1].idx))
               /\ sup.last'[1].id \notin sup.started
       /\ sup.out' # sup.out
            => sup.out' \o sup.d.pending' = sup.out \o sup.d.pending]_vars

\* ---------------------------------------- shutdown escalation (SpecStop)
\* The supervisor begins to stop the child id.
EscBegin(id) ==
    /\ sup.esc.pc = "idle"
    /\ sup' = [sup EXCEPT !.esc = [@ EXCEPT !.pc = "exit", !.target = id]]
    /\ UNCHANGED runtime
    /\ UNCHANGED tasks

\* Step k, System::exit(target, reason k).
EscExit ==
    /\ sup.esc.pc = "exit"
    /\ sysq' = SysPut(sysq, sup.esc.target,
                      ExitSignal(sup.esc.target, DefaultShutdown[sup.esc.k]))
    /\ sup' = [sup EXCEPT !.esc = [@ EXCEPT !.pc = "call",
                                            !.log = Append(@, <<"exit", sup.esc.k>>)]]
    /\ UNCHANGED <<ids, sysOpen, msgOpen, msgq, runner, pipes, behav, callers, gh, hist,
                   budget>>
    /\ UNCHANGED tasks

\* Step k, System::wait(target) under the step's timeout.
EscWait ==
    /\ sup.esc.pc = "call"
    /\ LET id == sup.esc.target
       IN /\ sysq' = SysPut(sysq, id, Wait(id, Len(waiter) + 1))
          /\ waiter' = Append(waiter, [id |-> id, live |-> Live(id), acc |-> SendSysMsgOk(id),
                                       res |-> WaitResult(SendSysMsgOk(id)),
                                       at |-> "-", fin |-> "-"])
    /\ sup' = [sup EXCEPT !.esc = [@ EXCEPT !.pc = "wait", !.w = Len(waiter) + 1]]
    /\ UNCHANGED <<ids, sysOpen, msgOpen, msgq, runner, pipes, behav, linkCall, chanRes, gh,
                   hist, budget>>
    /\ UNCHANGED tasks

\* The wait of step k completes within its timeout: its Exit is returned.
EscReturn ==
    /\ sup.esc.pc = "wait"
    /\ waiter[sup.esc.w].res # "pending"
    /\ sup' = [sup EXCEPT !.esc = [@ EXCEPT !.pc = "done", !.res = waiter[sup.esc.w].res]]
    /\ UNCHANGED runtime
    /\ UNCHANGED tasks

\* The timeout of step k fires on the pending wait: on to the next step, or
\* ShutdownFailed after the last.
EscTimeout ==
    /\ sup.esc.pc = "wait"
    /\ waiter[sup.esc.w].res = "pending"
    /\ sup' = [sup EXCEPT !.esc =
            IF sup.esc.k < Len(DefaultShutdown)
            THEN [@ EXCEPT !.pc = "exit", !.k = @ + 1,
                           !.log = Append(@, <<"timeout", sup.esc.k>>)]
            ELSE [@ EXCEPT !.pc = "done", !.res = "ShutdownFailed",
                           !.log = Append(@, <<"timeout", sup.esc.k>>)]]
    /\ UNCHANGED runtime
    /\ UNCHANGED tasks

\* A child that may trap exits, take its signals and exit on its own, and
\* the supervisor stopping it.
NextStop ==
    \/ \E s \in Slots : SpawnBegin(s, {})
    \/ \E s \in Slots : SpawnPut(s)
    \/ \E s \in Slots : RunnerSys(s)
    \/ \E s \in Slots : RunnerCall(s)
    \/ \E s \in Slots : RunnerNotify(s)
    \/ \E s \in Slots : RunnerDrain(s)
    \/ \E s \in Slots : RunnerTerminate(s)
    \/ \E s \in Slots : BehSignal(s)
    \/ \E s \in Slots : \E c \in CallArgs(s) : BehCall(s, c)
    \/ \E id \in KnownIDs : EscBegin(id)
    \/ EscExit
    \/ EscWait
    \/ EscReturn
    \/ EscTimeout

StopBudget == [spawn |-> MailSpawns, send |-> 0, exit |-> 0, wait |-> 0, link |-> 0,
               chan |-> 0, call |-> StopCalls,
               info |-> 0]

SpecStop == InitWith(MailActors, StopBudget) /\ [][NextStop]_vars

\* The escalation has returned the result of a wait that the live child
\* accepted.
EscReturned ==
    /\ sup.esc.pc = "done"
    /\ sup.esc.res # "ShutdownFailed"
    /\ waiter[sup.esc.w].live
    /\ waiter[sup.esc.w].acc

\* C19: the steps are applied in list order, each later step after the
\* timeout of the one before; ShutdownFailed is returned only after every
\* step has timed out; a wait that completes ends the escalation, which
\* returns the child's exit reason.
C19_EscalationReturnsChildExit ==
    /\ \A i \in 1 .. Len(sup.esc.log) :
            sup.esc.log[i] = <<(IF i % 2 = 1 THEN "exit" ELSE "timeout"), (i + 1) \div 2>>
    /\ sup.esc.res = "ShutdownFailed" => Len(sup.esc.log) = 2 * Len(DefaultShutdown)
    /\ EscReturned => sup.esc.res = waiter[sup.esc.w].fin

\* ------------------------------------ System::actor_info (SpecInfo)
\* System::actor_info: GetInfo(tx) is sent, whatever send_sys_msg returns,
\* and the oneshot awaited; a refused message drops tx and gives None.
SysActorInfo(id) ==
    /\ budget.info > 0
    /\ budget' = [budget EXCEPT !.info = @ - 1]
    /\ sysq' = SysPut(sysq, id, GetInfo(id, Len(waiter) + 1))
    /\ waiter' = Append(waiter, [id |-> id, live |-> Live(id), acc |-> SendSysMsgOk(id),
                                 res |-> IF SendSysMsgOk(id) THEN "pending" ELSE "None",
                                 at |-> "-", fin |-> NoID])
    /\ UNCHANGED <<ids, sysOpen, msgOpen, msgq, runner, pipes, behav, linkCall, chanRes, gh,
                   hist, sup>>
    /\ UNCHANGED tasks

\* An actor that is sent messages, whose behaviour receives them and may
\* call Context::exit, and that is asked for its info.
NextInfo ==
    \/ \E s \in Slots : SpawnBegin(s, {})
    \/ \E s \in Slots : SpawnPut(s)
    \/ \E s \in Slots : RunnerSys(s)
    \/ \E s \in Slots : RunnerCall(s)
    \/ \E s \in Slots : RunnerMsg(s)
    \/ \E s \in Slots : RunnerPush(s)
    \/ \E s \in Slots : RunnerNotify(s)
    \/ \E s \in Slots : RunnerDrain(s)
    \/ \E s \in Slots : RunnerTerminate(s)
    \/ \E s \in Slots : BehRecv(s)
    \/ \E s \in Slots : \E c \in BehExitCalls : BehCall(s, c)
    \/ \E id \in KnownIDs : Send(id)
    \/ \E id \in KnownIDs : SysActorInfo(id)

InfoBudget == [spawn |-> MailSpawns, send |-> MailSends, exit |-> 0, wait |-> 0,
               link |-> 0, chan |-> 0, call |-> MailCalls,
               info |-> InfoCalls]

\* Runner tasks are polled whenever they can make progress, a spawn call
\* installs its entry, and a behaviour that is waiting for a message
\* takes the one its inbox holds.
SpecInfo ==
    /\ InitWith(MailActors, InfoBudget)
    /\ [][NextInfo]_vars
    /\ \A s \in MailSlots : WF_vars(QuitStep(s)) /\ WF_vars(SpawnPut(s)) /\ WF_vars(BehRecv(s))

\* C20: every System::actor_info call resolves, with Some or None.
C20_ActorInfoResolves ==
    \A w \in 1 .. InfoCalls :
        (w \in DOMAIN waiter) ~> (w \in DOMAIN waiter /\ waiter[w].res # "pending")

\* ------------------------------------------------ id pool (SpecPool)
\* Actors are spawned, exited from outside or by their behaviour, and
\* their slots leased again; spawn is also called with every slot leased.
NextPool ==
    \/ \E s \in Slots : SpawnBegin(s, {})
    \/ \E s \in Slots : SpawnPut(s)
    \/ SpawnFail
    \/ \E s \in Slots : RunnerSys(s)
    \/ \E s \in Slots : RunnerCall(s)
    \/ \E s \in Slots : RunnerNotify(s)
    \/ \E s \in Slots : RunnerDrain(s)
    \/ \E s \in Slots : RunnerTerminate(s)
    \/ \E s \in Slots : \E c \in BehExitCalls : BehCall(s, c)
    \/ \E id \in KnownIDs : \E r \in ExitArgs : SysExit(id, r)

PoolBudget == [spawn |-> PoolSpawns, send |-> 0, exit |-> PoolExits, wait |-> 0,
               link |-> 0, chan |-> 0, call |-> PoolCalls,
               info |-> 0]

SpecPool == InitWith(LinkActors, PoolBudget) /\ [][NextPool]_vars

\* A runner is bound to slot s.
Bound(s) == pc[s] # "none"

\* C21: a step binds a runner only to a slot that has no runner and no
\* lease, leasing it and naming the runner by the slot's current
\* generation; a spawn call made while every slot is leased changes no
\* lease, no entry, no runner and no channel.
C21_OneRunnerPerSlot ==
    [][/\ \A s \in Slots :
            (rid'[s] # rid[s] /\ rid'[s] # NoID)
                => /\ ~Bound(s) /\ ~leased[s] /\ leased'[s]
                   /\ rid'[s] = <<s, gen[s]>>
       /\ ((\A s \in Slots : leased[s]) /\ budget'.spawn < budget.spawn)
            => /\ hist'.limit = hist.limit + 1
               /\ UNCHANGED <<ids, chans, runner, pipes>>]_vars

\* Every slot holds a running actor and spawn has returned MaxActorsLimit.
C21_Witness ==
    /\ hist.limit > 0
    /\ \A s \in Slots : leased[s] /\ Bound(s) /\ entry[s] = rid[s]

TypeOK ==
    /\ \A s \in Slots : Len(inbox[s]) <= MsgInboxSize /\ Len(sigs[s]) <= SigInboxSize
    /\ \A s \in Slots : Len(calls[s]) <= 1

====
